---- MODULE Spec2Model ----
(***************************************************************************)
(* Model of the order path of the Kraken trading service and of the        *)
(* application around it:                                                  *)
(*   src/src/services/tradeValidator.ts  (TradeValidator)                  *)
(*   src/src/services/krakenService.ts   (KrakenService)                   *)
(*   src/src/contexts/TradingContext.tsx (TradingProvider)                 *)
(*   src/src/components/TradingModeToggle.tsx                              *)
(*   src/src/components/ConnectionStatus.tsx (TradeDebugger)               *)
(*   src/src/components/ErrorLogger.tsx                                    *)
(*   src/unnamed/part_001                (LiveTradingEngine)               *)
(*                                                                         *)
(* Pairs, volumes and balances are sequences of one-character strings, so  *)
(* that parseFloat, Number.toString, split, endsWith and toUpperCase are   *)
(* computed and not assumed; error messages are strings, searched with     *)
(* includes.  Numbers are fixed point: asset amounts and balances in units *)
(* of 1/AmountScale (0.00001), prices in units of 1/PriceScale (0.1 USD),  *)
(* USD values (amount x price) in units of 1/(AmountScale*PriceScale).     *)
(* The input strings of the model have at most 5 fraction digits for       *)
(* amounts and balances and 1 for prices, no exponent and no leading       *)
(* white space, so the fixed-point reading of them is exact.               *)
(***************************************************************************)
EXTENDS Integers, Sequences, FiniteSets, TLC

(***************************************************************************)
(* Numbers                                                                 *)
(***************************************************************************)
\* Fraction digits kept of an amount or balance, and of a price
AmountDigits == 5
PriceDigits == 1
AmountScale == 10 ^ AmountDigits
PriceScale == 10 ^ PriceDigits

\* The IEEE not-a-number, a value outside the range the model computes in.
NaN == -(2 ^ 30)

JsLt(a, b) == a # NaN /\ b # NaN /\ a < b
JsLe(a, b) == a # NaN /\ b # NaN /\ a <= b
JsGt(a, b) == a # NaN /\ b # NaN /\ a > b
JsMul(a, b) == IF a = NaN \/ b = NaN THEN NaN ELSE a * b
JsAdd(a, b) == IF a = NaN \/ b = NaN THEN NaN ELSE a + b
JsMax(a, b) == IF a = NaN \/ b = NaN THEN NaN ELSE IF a >= b THEN a ELSE b
\* JavaScript truthiness of a number: 0 and NaN are falsy.
Truthy(a) == a # NaN /\ a # 0

(***************************************************************************)
(* Characters and strings                                                  *)
(***************************************************************************)
DigitChars == <<"0", "1", "2", "3", "4", "5", "6", "7", "8", "9">>
LowerChars == <<"a", "b", "c", "d", "e", "f", "g", "h", "i", "j", "k", "l", "m",
                "n", "o", "p", "q", "r", "s", "t", "u", "v", "w", "x", "y", "z">>
UpperChars == <<"A", "B", "C", "D", "E", "F", "G", "H", "I", "J", "K", "L", "M",
                "N", "O", "P", "Q", "R", "S", "T", "U", "V", "W", "X", "Y", "Z">>

IsDigit(c) == \E i \in 1..10 : DigitChars[i] = c
DigitVal(c) == (CHOOSE i \in 1..10 : DigitChars[i] = c) - 1
DigitChar(d) == DigitChars[d + 1]

\* String.prototype.toUpperCase, one character
UpperChar(c) ==
  IF \E i \in 1..26 : LowerChars[i] = c
  THEN UpperChars[CHOOSE i \in 1..26 : LowerChars[i] = c]
  ELSE c

\* String.prototype.toUpperCase
toUpperCase(s) == [i \in 1..Len(s) |-> UpperChar(s[i])]

\* String.prototype.includes / indexOf for a one-character needle
IndexOfChar(s, c) ==
  IF \E i \in 1..Len(s) : s[i] = c
  THEN CHOOSE i \in 1..Len(s) : s[i] = c /\ \A j \in 1..(i - 1) : s[j] # c
  ELSE 0

includesChar(s, c) == IndexOfChar(s, c) # 0

\* String.prototype.includes
includes(s, phrase) ==
  \E i \in 1..(Len(s) - Len(phrase) + 1) : SubSeq(s, i, i + Len(phrase) - 1) = phrase

\* String.prototype.endsWith
endsWith(s, suffix) ==
  /\ Len(s) >= Len(suffix)
  /\ SubSeq(s, Len(s) - Len(suffix) + 1, Len(s)) = suffix

\* String.prototype.replace(c, ''): the first c is taken out
RemoveFirstChar(s, c) ==
  IF IndexOfChar(s, c) = 0 THEN s
  ELSE SubSeq(s, 1, IndexOfChar(s, c) - 1) \o SubSeq(s, IndexOfChar(s, c) + 1, Len(s))

\* The first two fields of s.split(c), for a string that includes c: the text
\* before the first c, and the text between the first c and the second (or
\* the end).
SplitFirst(s, c) == SubSeq(s, 1, IndexOfChar(s, c) - 1)
SplitSecond(s, c) ==
  LET rest == SubSeq(s, IndexOfChar(s, c) + 1, Len(s))
      k == IndexOfChar(rest, c)
  IN IF k = 0 THEN rest ELSE SubSeq(rest, 1, k - 1)

\* The longest prefix of s made of decimal digits
RECURSIVE DigitPrefix(_)
DigitPrefix(s) ==
  IF Len(s) > 0 /\ IsDigit(s[1]) THEN <<s[1]>> \o DigitPrefix(Tail(s)) ELSE <<>>

\* The value of a string of digits
RECURSIVE DigitsValue(_)
DigitsValue(ds) ==
  IF Len(ds) = 0 THEN 0
  ELSE 10 * DigitsValue(SubSeq(ds, 1, Len(ds) - 1)) + DigitVal(ds[Len(ds)])

\* The first k digits of a fraction, padded with zeros on the right
FractionValue(ds, k) ==
  DigitsValue([i \in 1..k |-> IF i <= Len(ds) THEN ds[i] ELSE "0"])

\* parseFloat at a resolution of k fraction digits: an optional sign, digits,
\* an optional point and digits; whatever follows is ignored; NaN when the
\* string starts with no number.
ParseFloatAt(s, k) ==
  LET signed == Len(s) > 0 /\ s[1] \in {"-", "+"}
      neg == Len(s) > 0 /\ s[1] = "-"
      body == IF signed THEN Tail(s) ELSE s
      ip == DigitPrefix(body)
      afterInt == SubSeq(body, Len(ip) + 1, Len(body))
      hasPoint == Len(afterInt) > 0 /\ afterInt[1] = "."
      fp == IF hasPoint THEN DigitPrefix(Tail(afterInt)) ELSE <<>>
      mag == DigitsValue(ip) * (10 ^ k) + FractionValue(fp, k)
  IN IF Len(ip) = 0 /\ Len(fp) = 0 THEN NaN
     ELSE IF neg THEN 0 - mag ELSE mag

\* parseFloat of an amount or a balance
parseFloat(s) == ParseFloatAt(s, AmountDigits)
\* parseFloat of a price
parseFloatPrice(s) == ParseFloatAt(s, PriceDigits)

\* The decimal digits of a natural number, no leading zeros ("0" for 0)
RECURSIVE NatDigits(_)
NatDigits(n) ==
  IF n < 10 THEN <<DigitChar(n)>> ELSE NatDigits(n \div 10) \o <<DigitChar(n % 10)>>

\* The k digits of a fraction f < 10^k, trailing zeros dropped
RECURSIVE FractionDigits(_, _)
FractionDigits(f, k) ==
  IF f = 0 \/ k = 0 THEN <<>>
  ELSE <<DigitChar(f \div (10 ^ (k - 1)))>> \o FractionDigits(f % (10 ^ (k - 1)), k - 1)

\* Number.prototype.toString of an amount: the shortest decimal numeral
numberToString(n) ==
  IF n = NaN THEN <<"N", "a", "N">>
  ELSE LET mag == IF n < 0 THEN 0 - n ELSE n
           ip == NatDigits(mag \div AmountScale)
           fp == FractionDigits(mag % AmountScale, AmountDigits)
       IN (IF n < 0 THEN <<"-">> ELSE <<>>)
          \o ip \o (IF Len(fp) = 0 THEN <<>> ELSE <<".">> \o fp)

(***************************************************************************)
(* Asset codes and pair names                                              *)
(***************************************************************************)
BTC == <<"B", "T", "C">>
XBT == <<"X", "B", "T">>
XXBT == <<"X", "X", "B", "T">>
ETH == <<"E", "T", "H">>
XETH == <<"X", "E", "T", "H">>
XRP == <<"X", "R", "P">>
XXRP == <<"X", "X", "R", "P">>
LTC == <<"L", "T", "C">>
XLTC == <<"X", "L", "T", "C">>
ADA == <<"A", "D", "A">>
DOT == <<"D", "O", "T">>
SOL == <<"S", "O", "L">>
USD == <<"U", "S", "D">>
ZUSD == <<"Z", "U", "S", "D">>
BITCOIN == <<"B", "I", "T", "C", "O", "I", "N">>
ETHEREUM == <<"E", "T", "H", "E", "R", "E", "U", "M">>
RIPPLE == <<"R", "I", "P", "P", "L", "E">>
LITECOIN == <<"L", "I", "T", "E", "C", "O", "I", "N">>

\* "BASE/USD" and "BASEUSD"
SlashUsd(base) == base \o <<"/">> \o USD
PlainUsd(base) == base \o USD

\* The number a decimal numeral of the source denotes, as an amount or balance
\* (whole + frac/10^fracDigits), and as a price
Amount(whole, frac, fracDigits) ==
  whole * AmountScale + frac * (10 ^ (AmountDigits - fracDigits))
Price(whole, tenths) == whole * PriceScale + tenths

(***************************************************************************)
(* TradeValidator  (src/src/services/tradeValidator.ts)                    *)
(***************************************************************************)
\* this.minOrderSizes, as the set of <<pair, size>> entries
minOrderSizes ==
  { <<SlashUsd(BTC), Amount(0, 1, 4)>>, <<SlashUsd(ETH), Amount(0, 1, 3)>>,
    <<SlashUsd(XRP), Amount(1, 0, 0)>>, <<SlashUsd(LTC), Amount(0, 1, 2)>>,
    <<SlashUsd(ADA), Amount(10, 0, 0)>>, <<SlashUsd(DOT), Amount(0, 1, 1)>>,
    <<PlainUsd(XBT), Amount(0, 1, 4)>>, <<PlainUsd(ETH), Amount(0, 1, 3)>>,
    <<PlainUsd(XRP), Amount(1, 0, 0)>>, <<PlainUsd(LTC), Amount(0, 1, 2)>>,
    <<PlainUsd(ADA), Amount(10, 0, 0)>>, <<PlainUsd(DOT), Amount(0, 1, 1)>> }

\* table[key] of a JavaScript object given as a set of <<key, value>> entries;
\* `missing` stands for undefined
Lookup(table, key, missing) ==
  IF \E e \in table : e[1] = key
  THEN (CHOOSE e \in table : e[1] = key)[2]
  ELSE missing

\* Mutant: the default is 0.001
getMinOrderSize_Default001(pair) ==
  LET v == Lookup(minOrderSizes, pair, 0)
  IN IF Truthy(v) THEN v ELSE Amount(0, 1, 3)

\* Mutant: the table is not consulted
getMinOrderSize_NoTable(pair) == Amount(0, 1, 4)

\* this.minOrderSizes[pair] || 0.0001
getMinOrderSize(pair) ==
  LET v == Lookup(minOrderSizes, pair, 0)
  IN IF Truthy(v) THEN v ELSE Amount(0, 1, 4)

\* normalizations[currency.toUpperCase()] || currency.toUpperCase()
normalizeCurrency(currency) ==
  LET up == toUpperCase(currency)
      normalizations == { <<BTC, XXBT>>, <<BITCOIN, XXBT>>, <<ETH, XETH>>,
                          <<ETHEREUM, XETH>>, <<XRP, XXRP>>, <<RIPPLE, XXRP>>,
                          <<LTC, XLTC>>, <<LITECOIN, XLTC>>, <<USD, ZUSD>> }
  IN Lookup(normalizations, up, up)

\* Mutant: the table of exchange codes is missing
parsePair_NoTable(pair) ==
  IF includesChar(pair, "/")
  THEN <<normalizeCurrency(SplitFirst(pair, "/")),
         normalizeCurrency(SplitSecond(pair, "/"))>>
  ELSE IF endsWith(pair, USD)
       THEN <<normalizeCurrency(SubSeq(pair, 1, Len(pair) - 3)), ZUSD>>
  ELSE <<pair, ZUSD>>

\* parsePair: <<base, quote>>
parsePair(pair) ==
  IF includesChar(pair, "/")
  THEN <<normalizeCurrency(SplitFirst(pair, "/")),
         normalizeCurrency(SplitSecond(pair, "/"))>>
  ELSE IF pair = PlainUsd(XBT) THEN <<XXBT, ZUSD>>
  ELSE IF pair = PlainUsd(ETH) THEN <<XETH, ZUSD>>
  ELSE IF pair = PlainUsd(XRP) THEN <<XXRP, ZUSD>>
  ELSE IF pair = PlainUsd(LTC) THEN <<XLTC, ZUSD>>
  ELSE IF pair = PlainUsd(ADA) THEN <<ADA, ZUSD>>
  ELSE IF pair = PlainUsd(DOT) THEN <<DOT, ZUSD>>
  ELSE IF endsWith(pair, USD)
       THEN <<normalizeCurrency(SubSeq(pair, 1, Len(pair) - 3)), ZUSD>>
  ELSE <<pair, ZUSD>>

\* Mutant: an asset without a price counts for nothing
PriceOr1_Zero(cryptoPrices, currency) == Lookup(cryptoPrices, currency, 0)

\* A balance map (KrakenBalance) and a price table (CryptoPrice) are sets of
\* <<asset code, value>> entries with distinct codes.
\* this.cryptoPrices[currency] || 1
PriceOr1(cryptoPrices, currency) ==
  LET v == Lookup(cryptoPrices, currency, 0)
  IN IF Truthy(v) THEN v ELSE Price(1, 0)

\* this.balances[a] || this.balances[b] || '0'
BalanceText(balances, a, b) ==
  LET va == Lookup(balances, a, <<>>)
      vb == Lookup(balances, b, <<>>)
  IN IF Len(va) > 0 THEN va ELSE IF Len(vb) > 0 THEN vb ELSE <<"0">>

\* getEstimatedPrice
getEstimatedPrice(cryptoPrices, currency) ==
  LET n == Lookup(cryptoPrices, normalizeCurrency(currency), 0)
  IN IF Truthy(n) THEN n ELSE PriceOr1(cryptoPrices, currency)

\* getTotalPortfolioValueInUsd, in USD-value units
RECURSIVE SumValue(_, _)
SumValue(entries, cryptoPrices) ==
  IF entries = {} THEN 0
  ELSE LET e == CHOOSE x \in entries : TRUE
           numBalance == parseFloat(e[2])
           rest == SumValue(entries \ {e}, cryptoPrices)
       IN IF JsGt(numBalance, 0)
          THEN JsAdd(rest, JsMul(numBalance, PriceOr1(cryptoPrices, e[1])))
          ELSE rest

getTotalPortfolioValueInUsd(balances, cryptoPrices) == SumValue(balances, cryptoPrices)

\* baseBalance * 0.95.  Every balance of the model is a multiple of
\* 20/AmountScale, so the quotient is exact.
Times095(x) == IF x = NaN THEN NaN ELSE (x * 95) \div 100

E_POSITIVE == "Trade amount must be positive"
E_BELOW_MIN == "Order size is below minimum"
E_PORTFOLIO == "Insufficient portfolio value"
E_DIRECT_USD == "Direct USD balance insufficient. May need to convert crypto assets."
E_BASE == "Insufficient base balance"
E_BASE_ADJUST == "Insufficient base balance. Adjusting amount"

HasField(r, f) == f \in DOMAIN r

\* Mutant: amount < 0
NonPositive_Strict(amount) == JsLt(amount, 0)

\* Line 70: amount <= 0
NonPositive(amount) == JsLe(amount, 0)

\* Line 79: amount < minSize
BelowMinimum(amount, minSize) == JsLt(amount, minSize)

\* Line 92: price ? amount * price : amount * this.getEstimatedPrice(baseCurrency)
EstimatedCost(cryptoPrices, trade, baseCurrency) ==
  IF HasField(trade, "price") /\ Truthy(trade.price)
  THEN JsMul(trade.amount, trade.price)
  ELSE JsMul(trade.amount, getEstimatedPrice(cryptoPrices, baseCurrency))

\* Line 105: parseFloat(this.balances['ZUSD'] || this.balances['USD'] || '0'),
\* as a USD value
UsdBalance(balances) == JsMul(parseFloat(BalanceText(balances, ZUSD, USD)), PriceScale)

\* Mutant: the advisory case is a rejection
AdvisoryVerdict_Invalid == [isValid |-> FALSE, error |-> E_DIRECT_USD]

\* Lines 108-111: the verdict when only the direct USD balance falls short
AdvisoryVerdict == [isValid |-> TRUE, error |-> E_DIRECT_USD]

\* Mutant: no 5% buffer is kept
SellAdjustedAmount_NoBuffer(baseBalance, minSize) == JsMax(baseBalance, minSize)

\* Line 118: Math.max(baseBalance * 0.95, minSize)
SellAdjustedAmount(baseBalance, minSize) == JsMax(Times095(baseBalance), minSize)

\* Mutant: the rejection names the cost but not what is available
PortfolioVerdict_NoAvailable(estimatedCost, totalUsdValue) ==
  [isValid |-> FALSE, error |-> E_PORTFOLIO, requiredBalance |-> estimatedCost]

\* Lines 96-101: the verdict when the portfolio is worth less than the cost
PortfolioVerdict(estimatedCost, totalUsdValue) ==
  [isValid |-> FALSE, error |-> E_PORTFOLIO,
   requiredBalance |-> estimatedCost, availableBalance |-> totalUsdValue]

\* validateTrade.  trade is [pair, side, amount] with an optional price; the
\* verdict has isValid and the optional fields error, adjustedAmount,
\* requiredBalance, availableBalance.  requiredBalance and availableBalance
\* are USD values on the buy side and amounts on the sell side.
validateTrade(balances, cryptoPrices, trade) ==
  LET pair == trade.pair
      amount == trade.amount
      minSize == getMinOrderSize(pair)
      baseCurrency == parsePair(pair)[1]
      estimatedCost == EstimatedCost(cryptoPrices, trade, baseCurrency)
      totalUsdValue == getTotalPortfolioValueInUsd(balances, cryptoPrices)
      usdBalance == UsdBalance(balances)
      baseBalance == parseFloat(BalanceText(balances, baseCurrency, baseCurrency))
      adjustedAmount == SellAdjustedAmount(baseBalance, minSize)
  IN IF NonPositive(amount)
     THEN [isValid |-> FALSE, error |-> E_POSITIVE]
     ELSE IF BelowMinimum(amount, minSize)
     THEN [isValid |-> FALSE, error |-> E_BELOW_MIN, adjustedAmount |-> minSize]
     ELSE IF trade.side = "buy"
     THEN IF JsLt(totalUsdValue, estimatedCost)
          THEN PortfolioVerdict(estimatedCost, totalUsdValue)
          ELSE IF JsLt(usdBalance, estimatedCost)
          THEN AdvisoryVerdict
          ELSE [isValid |-> TRUE]
     ELSE IF JsLt(baseBalance, amount)
          THEN IF JsLt(adjustedAmount, minSize)
               THEN [isValid |-> FALSE, error |-> E_BASE,
                     requiredBalance |-> amount, availableBalance |-> baseBalance]
               ELSE [isValid |-> FALSE, error |-> E_BASE_ADJUST,
                     adjustedAmount |-> adjustedAmount,
                     requiredBalance |-> amount, availableBalance |-> baseBalance]
          ELSE [isValid |-> TRUE]

(***************************************************************************)
(* KrakenService  (src/src/services/krakenService.ts)                      *)
(***************************************************************************)
balanceUpdateInterval == 30000
priceUpdateInterval == 60000

\* Bounds of the model
Procs == {"p1", "p2"}
\* The caller of the specification whose calls do not overlap
SeqCaller == "p1"
\* Date.now() of the initial state (ms), later than both intervals, so that a
\* timestamp of 0 is stale as it is for a real clock
StartTime == 100000
TickMs == 35000
MaxTicks == 2
\* How many times window.logError is called
MaxLogCalls == 105

\* The price table initializeCryptoPrices builds from the feed's JSON, a set of
\* <<coin id, usd>> entries: data.<coin>?.usd || <fallback>
FeedUsd(data, coin, fallback) ==
  LET v == Lookup(data, coin, 0)
  IN IF Truthy(v) THEN v ELSE fallback

PriceTable(data) ==
  { <<XBT, FeedUsd(data, "bitcoin", Price(45000, 0))>>,
    <<XXBT, FeedUsd(data, "bitcoin", Price(45000, 0))>>,
    <<ETH, FeedUsd(data, "ethereum", Price(2500, 0))>>,
    <<XETH, FeedUsd(data, "ethereum", Price(2500, 0))>>,
    <<XRP, FeedUsd(data, "ripple", Price(0, 6))>>,
    <<XXRP, FeedUsd(data, "ripple", Price(0, 6))>>,
    <<LTC, FeedUsd(data, "litecoin", Price(100, 0))>>,
    <<XLTC, FeedUsd(data, "litecoin", Price(100, 0))>>,
    <<ADA, FeedUsd(data, "cardano", Price(0, 5))>>,
    <<DOT, FeedUsd(data, "polkadot", Price(7, 0))>>,
    <<USD, Price(1, 0)>>,
    <<ZUSD, Price(1, 0)>> }

\* The table of the catch branch of initializeCryptoPrices
FallbackPrices ==
  { <<XBT, Price(45000, 0)>>, <<XXBT, Price(45000, 0)>>,
    <<ETH, Price(2500, 0)>>, <<XETH, Price(2500, 0)>>,
    <<XRP, Price(0, 6)>>, <<XXRP, Price(0, 6)>>,
    <<LTC, Price(100, 0)>>, <<XLTC, Price(100, 0)>>,
    <<ADA, Price(0, 5)>>, <<DOT, Price(7, 0)>>,
    <<USD, Price(1, 0)>>, <<ZUSD, Price(1, 0)>> }

\* What the price feed may answer: a failure, or a JSON body
FeedResponses ==
  { [ok |-> FALSE],
    [ok |-> TRUE, data |-> { <<"bitcoin", Price(30000, 0)>>, <<"ethereum", Price(2000, 0)>>,
                             <<"ripple", Price(0, 5)>>, <<"litecoin", Price(80, 0)>>,
                             <<"cardano", Price(0, 4)>>, <<"polkadot", Price(6, 0)>> }],
    [ok |-> TRUE, data |-> { <<"ethereum", Price(2400, 0)>> }] }

\* Balance maps the gateway may return as data.result
Txt1000 == <<"1", "0", "0", "0", ".", "0", "0">>
Txt002 == <<"0", ".", "0", "2">>
Txt100 == <<"1", "0", "0", ".", "0", "0", "0", "0">>
Txt01 == <<"0", ".", "1">>
Txt50 == <<"5", "0">>
Txt3 == <<"3">>
Txt0 == <<"0", ".", "0", "0", "0", "0">>

BalanceMaps ==
  { {},
    { <<ZUSD, Txt1000>> },
    { <<XXBT, Txt002>> },
    { <<XXBT, Txt002>>, <<XETH, Txt01>>, <<ZUSD, Txt100>> },
    { <<USD, Txt50>>, <<SOL, Txt3>>, <<XXRP, Txt0>> } }

E_INVOKE == "Function invocation failed: Unknown error"
E_NO_BALANCE == "No balance data received from Kraken"
E_NO_RESULT == "No order result received from Kraken"
E_VALIDATION == "Trade validation failed"

\* getAccountBalance, lines 114-128: the message thrown for data.error[0]
BalanceErrorMessage(krakenError) ==
  IF includes(krakenError, "Invalid key")
  THEN "Invalid API key - check your credentials"
  ELSE IF includes(krakenError, "Permission denied")
  THEN "API key lacks required permissions"
  ELSE IF includes(krakenError, "Invalid signature")
  THEN "Invalid API signature - check your secret key"
  ELSE IF includes(krakenError, "Invalid nonce")
  THEN "Invalid nonce - time synchronization issue"
  ELSE "Kraken Error: " \o krakenError

\* placeOrder, lines 243-260: the message thrown for data.error[0]
OrderErrorMessage(krakenError) ==
  IF includes(krakenError, "Insufficient funds")
  THEN "Insufficient funds for this trade"
  ELSE IF includes(krakenError, "Invalid arguments")
  THEN "Invalid order parameters"
  ELSE IF includes(krakenError, "Order minimum not met")
  THEN "Order size below minimum requirement"
  ELSE IF includes(krakenError, "Unknown asset pair")
  THEN "Invalid trading pair"
  ELSE IF includes(krakenError, "Invalid price")
  THEN "Invalid price specified"
  ELSE krakenError

\* What the gateway may answer to 'getBalance'
BalanceResponses ==
  { [kind |-> "invokeError"], [kind |-> "noResult"],
    [kind |-> "error", error |-> "EAPI:Invalid key"],
    [kind |-> "error", error |-> "EService:Unavailable"] }
  \cup { [kind |-> "result", result |-> b] : b \in BalanceMaps }

\* The texts of data.error[0] the gateway may answer to 'placeOrder'
OrderErrorTexts ==
  {"EOrder:Insufficient funds", "EOrder:Order minimum not met",
   "EGeneral:Invalid arguments", "EQuery:Unknown asset pair", "EAPI:Invalid key",
   "EGeneral:Permission denied", "EService:Unavailable"}

\* What the gateway may answer to 'placeOrder'
OrderResponses ==
  { [kind |-> "invokeError"], [kind |-> "noResult"],
    [kind |-> "result", txid |-> "TX1"] }
  \cup { [kind |-> "error", error |-> e] : e \in OrderErrorTexts }

\* Order requests (KrakenOrderRequest) callers may pass
Vol0 == <<"0">>
VolNeg == <<"-", "0", ".", "5">>
Vol000005 == <<"0", ".", "0", "0", "0", "0", "5">>
Vol0001z == <<"0", ".", "0", "0", "1", "0">>
Vol001 == <<"0", ".", "0", "1">>
Vol003 == <<"0", ".", "0", "3">>
Vol05 == <<"0", ".", "5">>
Vol2 == <<"2">>
VolJunk == <<"a", "b", "c">>
Txt2500 == <<"2", "5", "0", "0">>

VolumesOf(pair) ==
  IF pair = PlainUsd(XBT) THEN {Vol0, Vol000005, Vol001, Vol003, VolJunk}
  ELSE IF pair = PlainUsd(ETH) THEN {VolNeg, Vol0001z, Vol05}
  ELSE {Vol000005, Vol2}

OrderPairs == {PlainUsd(XBT), PlainUsd(ETH), PlainUsd(SOL)}

OrderRequests ==
  UNION { { [pair |-> pr, type |-> sd, volume |-> vol] :
              sd \in {"buy", "sell"}, vol \in VolumesOf(pr) } : pr \in OrderPairs }
  \cup { [pair |-> PlainUsd(ETH), type |-> sd, volume |-> Vol05, price |-> Txt2500] :
           sd \in {"buy", "sell"} }

NoOrder == [pair |-> <<>>, type |-> "buy", volume |-> <<>>]
NoOutcome == [none |-> TRUE]

VARIABLES
  now,                \* Date.now()
  cachedBalances,     \* this.cachedBalances
  lastBalanceUpdate,  \* this.lastBalanceUpdate
  cryptoPrices,       \* this.cryptoPrices
  lastPriceUpdate,    \* this.lastPriceUpdate
  ctorFetch,          \* the constructor's initializeCryptoPrices(): "pending" or "done"
  pc,                 \* per caller: where its placeValidatedOrder stands
  order,              \* per caller: the order object, as the callee sees it
  requested,          \* per caller: a copy of the order as it was passed
  fetchNow,           \* per caller: the local `now` of getAccountBalance
  balances,           \* per caller: what getAccountBalance returned
  validations,        \* per caller: the validateTrade calls of this invocation
  sent,               \* per caller: the 'placeOrder' requests sent to the gateway
  outcome,            \* per caller: the KrakenOrderResponse returned
  kind,               \* per caller: "order" (placeValidatedOrder) or "balance"
                      \* (getAccountBalance called on its own)
  fetchedAt,          \* history: Date.now() at the start of the last
                      \* getAccountBalance call whose request brought balances
  orderSince,         \* history: a 'placeOrder' result has arrived since the
                      \* request of that call was sent
  feedOkAt,           \* history: when the last successful price refresh ended
  feedFailAt,         \* history: when the last feed answer came, if it was a
                      \* failure; 0 otherwise
  feedAsked,          \* per caller, history: updateCryptoPricesIfNeeded of this
                      \* call has sent a request to the price feed
  balanceAnswer,      \* per caller, history: what the gateway answered to the
                      \* 'getBalance' request of this call: "none" (not or
                      \* not yet), "result" or "failure"
  submitAnswer,       \* per caller, history: what the gateway answered to the
                      \* 'placeOrder' request of this call, or NoAnswer
  overtaken,          \* per caller, history: a 'placeOrder' result has arrived
                      \* while the 'getBalance' request of this call was in
                      \* flight
  vState,             \* a validator on its own: "off", "input" or "judged"
  vBalances,          \* its this.balances
  vPrices,            \* its this.cryptoPrices
  vTrade,             \* the TradeRequest given to validateTrade
  vVerdict,           \* the TradeValidationResult returned
  vRoute,             \* the PairRoute of the pair of that trade
  vAlias,             \* whether its this.balances, and its this.cryptoPrices,
                      \* is the very object the field of the service refers to
  vMade,              \* history: the balances and prices it was constructed
                      \* with by getTradeValidator, as they were then
  mounted,            \* TradingProvider: the effect of lines 41-62 has run
  isLiveMode,         \* TradingProvider: isLiveMode
  showLiveWarning,    \* TradingProvider: showLiveWarning
  tradingMode,        \* localStorage 'tradingMode': "none", "paper" or "live"
  apiKeys,            \* TradingProvider: apiKeys.kraken
  testing,            \* TradingProvider: a testConnection('kraken') awaits the
                      \* service
  isEngineRunning,    \* LiveTradingEngine: isEngineRunning
  activeStrategies,   \* LiveTradingEngine: the strategies that are active
  interval,           \* LiveTradingEngine: the timer of the trade effect, with
                      \* what the render that set it saw; or NoInterval
  exec,               \* the executeValidatedTrade invocation in progress or
                      \* just returned; or NoExec
  debug,              \* the debugTrade run in progress or just ended; or NoDebug
  logs,               \* ErrorLogger: logs, the ids of the entries
  logCalls            \* ErrorLogger: the entries made so far; 0 until
                      \* window.logError is installed

vars == <<now, cachedBalances, lastBalanceUpdate, cryptoPrices, lastPriceUpdate,
          ctorFetch, pc, order, requested, fetchNow, balances, validations, sent,
          outcome, kind, fetchedAt, orderSince, feedOkAt, feedFailAt, feedAsked,
          balanceAnswer, submitAnswer, overtaken, vState, vBalances, vPrices, vTrade, vVerdict, vRoute,
          vAlias, vMade, mounted, isLiveMode, showLiveWarning, tradingMode, apiKeys, testing,
          isEngineRunning, activeStrategies, interval, exec, debug, logs, logCalls>>
\* The objects a validator holds, and the rest of it
vObjects == <<vBalances, vPrices, vAlias>>
vOther == <<vState, vTrade, vVerdict, vRoute, vMade>>
vvars == <<vObjects, vOther>>
\* The application around the service: the provider, the engine, the
\* invocations of the two callers of placeValidatedOrder, the error log
modeVars == <<mounted, isLiveMode, showLiveWarning, tradingMode>>
engineVars == <<isEngineRunning, activeStrategies, interval>>
logVars == <<logs, logCalls>>
keyVars == <<apiKeys, testing>>
appVars == <<modeVars, keyVars, engineVars, exec, debug, logVars>>
serviceVars == <<cachedBalances, lastBalanceUpdate, cryptoPrices, lastPriceUpdate>>
callVars == <<order, requested, fetchNow, balances, validations, sent, outcome>>
feedHistory == <<feedOkAt, feedFailAt>>
balanceHistory == <<fetchedAt, orderSince>>
callHistory == <<kind, feedAsked, balanceAnswer, submitAnswer, overtaken>>

NoTrade == [pair |-> <<>>, side |-> "buy", amount |-> 0]
NoVerdict == [none |-> TRUE]
NoRoute == [none |-> TRUE]
NoAnswer == [kind |-> "none"]
NoValidator == [none |-> TRUE]
NoInterval == [none |-> TRUE]
NoExec == [state |-> "none"]
NoDebug == [state |-> "none"]
\* apiKeys.kraken of useState, lines 35-39
NoKeys == [key |-> "", secret |-> "", status |-> "none"]

\* The application as constructed: useState of TradingContext.tsx lines 33-39,
\* part_001 lines 275-282 and ErrorLogger.tsx line 18
AppConstructed ==
  /\ mounted = FALSE
  /\ isLiveMode = FALSE
  /\ showLiveWarning = FALSE
  /\ apiKeys = NoKeys
  /\ testing = FALSE
  /\ isEngineRunning = FALSE
  /\ activeStrategies = {}
  /\ interval = NoInterval
  /\ exec = NoExec
  /\ debug = NoDebug
  /\ logs = <<>>
  /\ logCalls = 0

\* The application in a browser that has stored nothing
AppInit == AppConstructed /\ tradingMode = "none"

\* new KrakenService(apiKey, apiSecret): empty caches, zero timestamps, and the
\* constructor's price request in flight
ServiceInit ==
  /\ now = StartTime
  /\ cachedBalances = {}
  /\ lastBalanceUpdate = 0
  /\ cryptoPrices = {}
  /\ lastPriceUpdate = 0
  /\ ctorFetch = "pending"
  /\ pc = [p \in Procs |-> "idle"]
  /\ order = [p \in Procs |-> NoOrder]
  /\ requested = [p \in Procs |-> NoOrder]
  /\ fetchNow = [p \in Procs |-> 0]
  /\ balances = [p \in Procs |-> {}]
  /\ validations = [p \in Procs |-> <<>>]
  /\ sent = [p \in Procs |-> <<>>]
  /\ outcome = [p \in Procs |-> NoOutcome]
  /\ kind = [p \in Procs |-> "order"]
  /\ fetchedAt = 0
  /\ orderSince = FALSE
  /\ feedOkAt = 0
  /\ feedFailAt = 0
  /\ feedAsked = [p \in Procs |-> FALSE]
  /\ balanceAnswer = [p \in Procs |-> "none"]
  /\ submitAnswer = [p \in Procs |-> NoAnswer]
  /\ overtaken = [p \in Procs |-> FALSE]

Init ==
  /\ ServiceInit
  /\ vState = "off"
  /\ vBalances = {}
  /\ vPrices = {}
  /\ vTrade = NoTrade
  /\ vVerdict = NoVerdict
  /\ vRoute = NoRoute
  /\ vAlias = [balances |-> FALSE, prices |-> FALSE]
  /\ vMade = NoValidator
  /\ AppInit

\* getTradeValidator(): null, or a validator that holds this.cachedBalances
\* and this.cryptoPrices
getTradeValidator ==
  IF cachedBalances = {}
  THEN NoValidator
  ELSE [balances |-> cachedBalances, cryptoPrices |-> cryptoPrices]

\* The clock advances
Tick ==
  /\ now < StartTime + MaxTicks * TickMs
  /\ now' = now + TickMs
  /\ UNCHANGED vvars
  /\ UNCHANGED <<serviceVars, ctorFetch, pc, callVars, feedHistory, balanceHistory,
                 callHistory>>
  /\ UNCHANGED appVars

\* initializeCryptoPrices once the feed has answered: <<cryptoPrices, lastPriceUpdate>>
initializeCryptoPrices(resp, prices, last, t) ==
  IF resp.ok THEN <<PriceTable(resp.data), t>> ELSE <<FallbackPrices, last>>

\* Mutant: the prices go stale with the interval of the balances
PricesStale_BalanceInterval(t, last) == t - last > balanceUpdateInterval

\* updateCryptoPricesIfNeeded: is the feed asked?
PricesStale(t, last) == t - last > priceUpdateInterval

\* getAccountBalance, lines 94-97: is the cached map returned?
BalanceCacheHit(t, last, cached) ==
  t - last < balanceUpdateInterval /\ cached # {}

\* placeValidatedOrder, lines 181-185
ValidationPair(pair) ==
  IF pair = PlainUsd(XBT) THEN SlashUsd(BTC)
  ELSE IF pair = PlainUsd(ETH) THEN SlashUsd(ETH)
  ELSE IF pair = PlainUsd(XRP) THEN SlashUsd(XRP)
  ELSE pair

\* Mutant: BTCUSD is not renamed
toExchangeNotation_NoRename(pair) == toUpperCase(RemoveFirstChar(pair, "/"))

\* executeValidatedTrade (TradingContext.tsx, lines 155-157): krakenPair
toExchangeNotation(pair) ==
  IF toUpperCase(RemoveFirstChar(pair, "/")) = PlainUsd(BTC)
  THEN PlainUsd(XBT)
  ELSE toUpperCase(RemoveFirstChar(pair, "/"))

\* executeValidatedTrade (TradingContext.tsx, lines 170-199): the branch taken
\* for result.error[0], named after the kind of error it reports
ErrorKind(errorMsg) ==
  IF includes(errorMsg, "Insufficient funds") THEN "InsufficientFunds"
  ELSE IF includes(errorMsg, "Order minimum not met") THEN "BelowOrderMinimum"
  ELSE IF includes(errorMsg, "Invalid arguments") THEN "InvalidArguments"
  ELSE IF includes(errorMsg, "Unknown asset pair") THEN "UnknownPair"
  ELSE IF includes(errorMsg, "Invalid key") THEN "InvalidKey"
  ELSE IF includes(errorMsg, "Permission denied") THEN "PermissionDenied"
  ELSE "Unclassified"

\* The pair on its way from executeValidatedTrade to the validator: the
\* exchange code placed in the order, the pair placeValidatedOrder validates,
\* and the asset codes parsePair makes of it
PairRoute(pair) ==
  [exchange |-> toExchangeNotation(pair),
   validation |-> ValidationPair(toExchangeNotation(pair)),
   canonical |-> parsePair(ValidationPair(toExchangeNotation(pair)))]

\* The TradeRequest of lines 187-192 and 201-206
TradeOf(o, amount) ==
  IF HasField(o, "price") /\ Len(o.price) > 0
  THEN [pair |-> ValidationPair(o.pair), side |-> o.type, amount |-> amount,
        price |-> parseFloatPrice(o.price)]
  ELSE [pair |-> ValidationPair(o.pair), side |-> o.type, amount |-> amount]

\* validation.adjustedAmount && validation.adjustedAmount > 0
WantsRetry(v) ==
  HasField(v, "adjustedAmount") /\ Truthy(v.adjustedAmount) /\ JsGt(v.adjustedAmount, 0)

\* Mutant: the revalidation judges the amount first asked for
RetryAmount_Original(o, v) == parseFloat(o.volume)

\* The amount of the revalidation, line 204
RetryAmount(o, v) == v.adjustedAmount

\* Mutant: the verdict of the revalidation is not looked at
RetryPasses_Always(second) == TRUE

\* Line 208: does the order go on to placeOrder after the revalidation?
RetryPasses(second) == second.isValid

\* Mutant: the request is sent a second time
Invoked_Twice(sentSoFar, o) == Append(Append(sentSoFar, o), o)

\* placeOrder, lines 229-236: the 'placeOrder' requests of this invocation once
\* the order has been handed to the gateway
Invoked(sentSoFar, o) == Append(sentSoFar, o)

\* The order after line 199
AdjustedOrder(o, v) == [o EXCEPT !.volume = numberToString(v.adjustedAmount)]

\* validation.error || 'Trade validation failed'
ValidationError(v) ==
  IF HasField(v, "error") /\ v.error # "" THEN v.error ELSE E_VALIDATION

\* One validateTrade call, as recorded in `validations`
Validation(bal, prices, trade) ==
  [trade |-> trade, balances |-> bal, prices |-> prices,
   verdict |-> validateTrade(bal, prices, trade)]

\* Lines 208-211: the revalidation has been made
AfterRevalidation(o, first, second) ==
  IF RetryPasses(second.verdict)
  THEN [validations |-> <<first, second>>, order |-> AdjustedOrder(o, first.verdict),
        submit |-> TRUE]
  ELSE [validations |-> <<first, second>>, order |-> AdjustedOrder(o, first.verdict),
        submit |-> FALSE, response |-> [error |-> <<ValidationError(first.verdict)>>]]

\* Lines 194-215: the first validation has been made
AfterValidation(bal, prices, o, first) ==
  IF first.verdict.isValid
  THEN [validations |-> <<first>>, order |-> o, submit |-> TRUE]
  ELSE IF WantsRetry(first.verdict)
  THEN AfterRevalidation(o, first,
         Validation(bal, prices, TradeOf(o, RetryAmount(o, first.verdict))))
  ELSE [validations |-> <<first>>, order |-> o, submit |-> FALSE,
        response |-> [error |-> <<ValidationError(first.verdict)>>]]

\* placeValidatedOrder, lines 179-217, the validator built from `bal` and
\* `prices`: the validations made, the order as it stands afterwards, whether
\* placeOrder is called, and the response returned when it is not
Validated(bal, prices, o) ==
  AfterValidation(bal, prices, o,
                  Validation(bal, prices, TradeOf(o, parseFloat(o.volume))))

\* getAccountBalance, lines 109-134: the message thrown for a gateway answer
\* that carries no balances
BalanceFailure(resp) ==
  IF resp.kind = "invokeError" THEN E_INVOKE
  ELSE IF resp.kind = "error" THEN BalanceErrorMessage(resp.error)
  ELSE E_NO_BALANCE

\* placeOrder, lines 238-265: the message thrown for a gateway answer that
\* carries no result
OrderFailure(resp) ==
  IF resp.kind = "invokeError" THEN E_INVOKE
  ELSE IF resp.kind = "error" THEN OrderErrorMessage(resp.error)
  ELSE E_NO_RESULT

\* Mutant: the error caught is thrown again
Caught_Rethrown(errorMessage) == [thrown |-> errorMessage]

\* placeValidatedOrder, lines 218-222: the catch turns the error thrown in
\* the try block into a response
Caught(errorMessage) == [error |-> <<errorMessage>>]

\* What a failed call hands its caller: placeValidatedOrder the response of
\* its catch; getAccountBalance called on its own throws (line 147), and the
\* message is recorded in the same form
Failed(k, errorMessage) ==
  IF k = "order" THEN Caught(errorMessage) ELSE [error |-> <<errorMessage>>]

\* Mutant: the field is not bound to a new object; the object it refers to is
\* written
Rebound_InPlace(content, aliased, value) == IF aliased THEN value ELSE content

\* Lines 56, 75 and 136 bind the field of the service to a new object. The
\* object the field referred to, which a validator may hold (`aliased`), keeps
\* its content
Rebound(content, aliased, value) == content

\* this.cryptoPrices = { ... }: what becomes of the table a validator holds
PricesRebound(table) ==
  /\ vPrices' = Rebound(vPrices, vAlias.prices, table)
  /\ vAlias' = [vAlias EXCEPT !.prices = FALSE]
  /\ UNCHANGED <<vBalances, vOther>>

\* this.cachedBalances = data.result: what becomes of the map a validator holds
BalancesRebound(result) ==
  /\ vBalances' = Rebound(vBalances, vAlias.balances, result)
  /\ vAlias' = [vAlias EXCEPT !.balances = FALSE]
  /\ UNCHANGED <<vPrices, vOther>>

\* History of the feed's answers
FeedAnswered(resp) ==
  /\ feedOkAt' = IF resp.ok THEN now ELSE feedOkAt
  /\ feedFailAt' = IF resp.ok THEN 0 ELSE now

\* The constructor's initializeCryptoPrices() gets its answer
CtorFeedReturn(resp) ==
  /\ ctorFetch = "pending"
  /\ ctorFetch' = "done"
  /\ cryptoPrices' = initializeCryptoPrices(resp, cryptoPrices, lastPriceUpdate, now)[1]
  /\ lastPriceUpdate' = initializeCryptoPrices(resp, cryptoPrices, lastPriceUpdate, now)[2]
  /\ FeedAnswered(resp)
  /\ PricesRebound(initializeCryptoPrices(resp, cryptoPrices, lastPriceUpdate, now)[1])
  /\ UNCHANGED <<now, cachedBalances, lastBalanceUpdate, pc, callVars, balanceHistory,
                 callHistory>>
  /\ UNCHANGED appVars

\* placeValidatedOrder(o) is called and runs to the await of line 177
Call(p, o) ==
  /\ pc[p] = "idle"
  /\ order' = [order EXCEPT ![p] = o]
  /\ requested' = [requested EXCEPT ![p] = o]
  /\ pc' = [pc EXCEPT ![p] = IF PricesStale(now, lastPriceUpdate)
                             THEN "awaitFeed" ELSE "pricesReady"]
  /\ kind' = [kind EXCEPT ![p] = "order"]
  /\ feedAsked' = [feedAsked EXCEPT ![p] = PricesStale(now, lastPriceUpdate)]
  /\ UNCHANGED vvars
  /\ UNCHANGED <<now, serviceVars, ctorFetch, fetchNow, balances, validations, sent,
                 outcome, feedHistory, balanceHistory, balanceAnswer, submitAnswer,
                 overtaken>>
  /\ UNCHANGED appVars

\* getAccountBalance() is called on its own (testConnection, the components)
GetBalance(p) ==
  /\ pc[p] = "idle"
  /\ kind' = [kind EXCEPT ![p] = "balance"]
  /\ pc' = [pc EXCEPT ![p] = "pricesReady"]
  /\ UNCHANGED vvars
  /\ UNCHANGED <<now, serviceVars, ctorFetch, callVars, feedHistory, balanceHistory,
                 feedAsked, balanceAnswer, submitAnswer, overtaken>>
  /\ UNCHANGED appVars

\* The feed answers the request of updateCryptoPricesIfNeeded
FeedReturn(p, resp) ==
  /\ pc[p] = "awaitFeed"
  /\ cryptoPrices' = initializeCryptoPrices(resp, cryptoPrices, lastPriceUpdate, now)[1]
  /\ lastPriceUpdate' = initializeCryptoPrices(resp, cryptoPrices, lastPriceUpdate, now)[2]
  /\ pc' = [pc EXCEPT ![p] = "pricesReady"]
  /\ FeedAnswered(resp)
  /\ PricesRebound(initializeCryptoPrices(resp, cryptoPrices, lastPriceUpdate, now)[1])
  /\ UNCHANGED <<now, cachedBalances, lastBalanceUpdate, ctorFetch, callVars,
                 balanceHistory, callHistory>>
  /\ UNCHANGED appVars

\* Mutant: placeValidatedOrder asks for the balances again instead of
\* validating
GotBalances_Again(p, b) ==
  /\ balances' = [balances EXCEPT ![p] = b]
  /\ IF kind[p] = "order"
     THEN /\ pc' = [pc EXCEPT ![p] = "pricesReady"]
          /\ UNCHANGED outcome
     ELSE /\ pc' = [pc EXCEPT ![p] = "done"]
          /\ outcome' = [outcome EXCEPT ![p] = [balances |-> b]]

\* getAccountBalance has returned b to caller p
GotBalances(p, b) ==
  /\ balances' = [balances EXCEPT ![p] = b]
  /\ IF kind[p] = "order"
     THEN /\ pc' = [pc EXCEPT ![p] = "validate"]
          /\ UNCHANGED outcome
     ELSE /\ pc' = [pc EXCEPT ![p] = "done"]
          /\ outcome' = [outcome EXCEPT ![p] = [balances |-> b]]

\* getAccountBalance runs to its return (cache hit) or to the await of line 101
BalanceStart(p) ==
  /\ pc[p] = "pricesReady"
  /\ IF BalanceCacheHit(now, lastBalanceUpdate, cachedBalances)
     THEN /\ GotBalances(p, cachedBalances)
          /\ UNCHANGED fetchNow
     ELSE /\ fetchNow' = [fetchNow EXCEPT ![p] = now]
          /\ pc' = [pc EXCEPT ![p] = "awaitBalance"]
          /\ UNCHANGED <<balances, outcome>>
  /\ UNCHANGED vvars
  /\ UNCHANGED <<now, serviceVars, ctorFetch, order, requested, validations, sent,
                 feedHistory, balanceHistory, callHistory>>
  /\ UNCHANGED appVars

\* Mutant: a failed refresh stamps the cache as just filled
Refreshed_StampOnFailure(resp, cached, last, t) ==
  IF resp.kind = "result" THEN <<resp.result, t>> ELSE <<cached, t>>

\* getAccountBalance, lines 109-137, once the gateway has answered:
\* <<cachedBalances, lastBalanceUpdate>>
Refreshed(resp, cached, last, t) ==
  IF resp.kind = "result" THEN <<resp.result, t>> ELSE <<cached, last>>

\* The gateway answers 'getBalance': lines 109-148, and the catch of line 218
BalanceReturn(p, resp) ==
  /\ pc[p] = "awaitBalance"
  /\ cachedBalances' = Refreshed(resp, cachedBalances, lastBalanceUpdate, fetchNow[p])[1]
  /\ lastBalanceUpdate' = Refreshed(resp, cachedBalances, lastBalanceUpdate, fetchNow[p])[2]
  /\ IF resp.kind = "result"
     THEN /\ GotBalances(p, resp.result)
          /\ fetchedAt' = fetchNow[p]
          /\ orderSince' = overtaken[p]
          /\ balanceAnswer' = [balanceAnswer EXCEPT ![p] = "result"]
          /\ BalancesRebound(resp.result)
     ELSE /\ outcome' = [outcome EXCEPT ![p] = Failed(kind[p], BalanceFailure(resp))]
          /\ pc' = [pc EXCEPT ![p] = "done"]
          /\ balanceAnswer' = [balanceAnswer EXCEPT ![p] = "failure"]
          /\ UNCHANGED <<balances, fetchedAt, orderSince>>
          /\ UNCHANGED vvars
  /\ UNCHANGED <<now, cryptoPrices, lastPriceUpdate, ctorFetch, order, requested,
                 fetchNow, validations, sent, feedHistory, kind, feedAsked,
                 submitAnswer, overtaken>>
  /\ UNCHANGED appVars

\* Line 217, or the return of line 210 or 213: r is what the validation
\* came to
Conclude(p, r) ==
  /\ validations' = [validations EXCEPT ![p] = r.validations]
  /\ order' = [order EXCEPT ![p] = r.order]
  /\ IF r.submit
     THEN /\ sent' = [sent EXCEPT ![p] = Invoked(sent[p], r.order)]
          /\ pc' = [pc EXCEPT ![p] = "awaitSubmit"]
          /\ UNCHANGED outcome
     ELSE /\ outcome' = [outcome EXCEPT ![p] = r.response]
          /\ pc' = [pc EXCEPT ![p] = "done"]
          /\ UNCHANGED sent

\* Lines 179-217 and placeOrder up to the await of line 229
ValidateAndSubmit(p) ==
  /\ pc[p] = "validate"
  /\ Conclude(p, Validated(balances[p], cryptoPrices, order[p]))
  /\ UNCHANGED vvars
  /\ UNCHANGED <<now, serviceVars, ctorFetch, requested, fetchNow, balances,
                 feedHistory, balanceHistory, callHistory>>
  /\ UNCHANGED appVars

\* Mutant: a successful order leaves the timestamp of the cache alone
Invalidated_Kept(last) == last

\* placeOrder, line 267: this.lastBalanceUpdate = 0
Invalidated(last) == 0

\* Mutant: the cache is invalidated before the answer is looked at
AfterSubmit_Always(resp, last) == Invalidated(last)

\* placeOrder, lines 238-267: this.lastBalanceUpdate once the gateway has
\* answered; line 267 is reached only past the throws of lines 240-264
AfterSubmit(resp, last) ==
  IF resp.kind = "result" THEN Invalidated(last) ELSE last

\* The gateway answers 'placeOrder': lines 238-275, and the catch of line 218
SubmitReturn(p, resp) ==
  /\ pc[p] = "awaitSubmit"
  /\ lastBalanceUpdate' = AfterSubmit(resp, lastBalanceUpdate)
  /\ IF resp.kind = "result"
     THEN /\ orderSince' = TRUE
          /\ overtaken' = [q \in Procs |-> overtaken[q] \/ pc[q] = "awaitBalance"]
          /\ outcome' = [outcome EXCEPT ![p] = [result |-> [txid |-> <<resp.txid>>]]]
     ELSE /\ outcome' = [outcome EXCEPT ![p] = Caught(OrderFailure(resp))]
          /\ UNCHANGED <<orderSince, overtaken>>
  /\ pc' = [pc EXCEPT ![p] = "done"]
  /\ submitAnswer' = [submitAnswer EXCEPT ![p] = resp]
  /\ UNCHANGED vvars
  /\ UNCHANGED <<now, cachedBalances, cryptoPrices, lastPriceUpdate, ctorFetch, order,
                 requested, fetchNow, balances, validations, sent, feedHistory,
                 fetchedAt, kind, feedAsked, balanceAnswer>>
  /\ UNCHANGED appVars

\* The caller has its response; its next call starts afresh
Return(p) ==
  /\ pc[p] = "done"
  /\ pc' = [pc EXCEPT ![p] = "idle"]
  /\ order' = [order EXCEPT ![p] = NoOrder]
  /\ requested' = [requested EXCEPT ![p] = NoOrder]
  /\ fetchNow' = [fetchNow EXCEPT ![p] = 0]
  /\ balances' = [balances EXCEPT ![p] = {}]
  /\ validations' = [validations EXCEPT ![p] = <<>>]
  /\ sent' = [sent EXCEPT ![p] = <<>>]
  /\ outcome' = [outcome EXCEPT ![p] = NoOutcome]
  /\ kind' = [kind EXCEPT ![p] = "order"]
  /\ feedAsked' = [feedAsked EXCEPT ![p] = FALSE]
  /\ balanceAnswer' = [balanceAnswer EXCEPT ![p] = "none"]
  /\ submitAnswer' = [submitAnswer EXCEPT ![p] = NoAnswer]
  /\ overtaken' = [overtaken EXCEPT ![p] = FALSE]
  /\ UNCHANGED vvars
  /\ UNCHANGED <<now, serviceVars, ctorFetch, feedHistory, balanceHistory>>
  /\ UNCHANGED appVars

\* Callers that do not overlap: a call starts when no other is in progress
SeqCall(p, o) ==
  /\ p = SeqCaller
  /\ \A q \in Procs : pc[q] = "idle"
  /\ Call(p, o)

\* The same for a direct getAccountBalance call
SeqGetBalance(p) ==
  /\ p = SeqCaller
  /\ \A q \in Procs : pc[q] = "idle"
  /\ GetBalance(p)

Next ==
  \/ Tick
  \/ \E resp \in FeedResponses : CtorFeedReturn(resp)
  \/ \E p \in Procs, o \in OrderRequests : SeqCall(p, o)
  \/ \E p \in Procs : SeqGetBalance(p)
  \/ \E p \in Procs, resp \in FeedResponses : FeedReturn(p, resp)
  \/ \E p \in Procs : BalanceStart(p)
  \/ \E p \in Procs, resp \in BalanceResponses : BalanceReturn(p, resp)
  \/ \E p \in Procs : ValidateAndSubmit(p)
  \/ \E p \in Procs, resp \in OrderResponses : SubmitReturn(p, resp)
  \/ \E p \in Procs : Return(p)

Spec == Init /\ [][Next]_vars

(***************************************************************************)
(* Calls that overlap on one service: both callers, with few inputs        *)
(***************************************************************************)
COrders == { [pair |-> PlainUsd(XBT), type |-> "sell", volume |-> Vol003] }

CFeedResponses == { r \in FeedResponses : r.ok /\ Cardinality(r.data) = 1 }

CBalanceResponses ==
  { [kind |-> "invokeError"], [kind |-> "result", result |-> { <<XXBT, Txt002>> }] }

COrderResponses ==
  { [kind |-> "result", txid |-> "TX1"],
    [kind |-> "error", error |-> "EOrder:Insufficient funds"] }

\* placeValidatedOrder calls that overlap
NextP ==
  \/ Tick
  \/ \E resp \in CFeedResponses : CtorFeedReturn(resp)
  \/ \E p \in Procs, o \in COrders : Call(p, o)
  \/ \E p \in Procs, resp \in CFeedResponses : FeedReturn(p, resp)
  \/ \E p \in Procs : BalanceStart(p)
  \/ \E p \in Procs, resp \in CBalanceResponses : BalanceReturn(p, resp)
  \/ \E p \in Procs : ValidateAndSubmit(p)
  \/ \E p \in Procs, resp \in COrderResponses : SubmitReturn(p, resp)
  \/ \E p \in Procs : Return(p)

\* ... and getAccountBalance calls among them
NextC ==
  \/ NextP
  \/ \E p \in Procs : GetBalance(p)

SpecC == Init /\ [][NextC]_vars

\* The step ValidateAndSubmit(p), told by what it does to pc: it can be taken
\* whenever pc[p] is "validate", and no other action moves pc[p] from there
ValidateStep(p) ==
  /\ pc[p] = "validate"
  /\ \E next \in {"awaitSubmit", "done"} : pc' = [pc EXCEPT ![p] = next]

\* Every remote call is answered, with a result or a failure, and the code
\* that waits for nothing runs on
CallProgress(p) ==
  /\ WF_vars(\E resp \in CFeedResponses : FeedReturn(p, resp))
  /\ WF_vars(BalanceStart(p))
  /\ WF_vars(\E resp \in CBalanceResponses : BalanceReturn(p, resp))
  /\ WF_pc(ValidateStep(p))
  /\ WF_vars(\E resp \in COrderResponses : SubmitReturn(p, resp))

SpecP == Init /\ [][NextP]_vars /\ \A p \in Procs : CallProgress(p)

(***************************************************************************)
(* A validator obtained from getTradeValidator and kept while the service  *)
(* goes on: one caller, calls in sequence                                  *)
(***************************************************************************)
HTrades ==
  { [pair |-> SlashUsd(BTC), side |-> "sell", amount |-> Amount(0, 1, 2)],
    [pair |-> SlashUsd(ETH), side |-> "buy", amount |-> Amount(0, 5, 2)] }

HBalanceResponses ==
  { [kind |-> "invokeError"],
    [kind |-> "result", result |-> { <<XXBT, Txt002>> }],
    [kind |-> "result", result |-> { <<ZUSD, Txt1000>> }] }

HFeedResponses == CFeedResponses \cup { r \in FeedResponses : ~r.ok }

\* const validator = service.getTradeValidator(), when it is not null
MakeValidator ==
  /\ getTradeValidator # NoValidator
  /\ vState' = "input"
  /\ vBalances' = getTradeValidator.balances
  /\ vPrices' = getTradeValidator.cryptoPrices
  /\ vAlias' = [balances |-> TRUE, prices |-> TRUE]
  /\ vMade' = getTradeValidator
  /\ vTrade' = NoTrade
  /\ vVerdict' = NoVerdict
  /\ UNCHANGED vRoute
  /\ UNCHANGED <<now, serviceVars, ctorFetch, pc, callVars, feedHistory,
                 balanceHistory, callHistory>>
  /\ UNCHANGED appVars

\* validator.validateTrade(t) on the validator that is kept
JudgeHeld(t) ==
  /\ vState \in {"input", "judged"}
  /\ vState' = "judged"
  /\ vTrade' = t
  /\ vVerdict' = validateTrade(vBalances, vPrices, t)
  /\ UNCHANGED <<vObjects, vRoute, vMade>>
  /\ UNCHANGED <<now, serviceVars, ctorFetch, pc, callVars, feedHistory,
                 balanceHistory, callHistory>>
  /\ UNCHANGED appVars

NextH ==
  \/ Tick
  \/ \E resp \in HFeedResponses : CtorFeedReturn(resp)
  \/ \E p \in Procs, o \in COrders : SeqCall(p, o)
  \/ \E p \in Procs : SeqGetBalance(p)
  \/ \E p \in Procs, resp \in HFeedResponses : FeedReturn(p, resp)
  \/ \E p \in Procs : BalanceStart(p)
  \/ \E p \in Procs, resp \in HBalanceResponses : BalanceReturn(p, resp)
  \/ \E p \in Procs : ValidateAndSubmit(p)
  \/ \E p \in Procs, resp \in COrderResponses : SubmitReturn(p, resp)
  \/ \E p \in Procs : Return(p)
  \/ MakeValidator
  \/ \E t \in HTrades : JudgeHeld(t)

SpecH == Init /\ [][NextH]_vars

(***************************************************************************)
(* Trades executed through executeValidatedTrade (TradingContext.tsx), one *)
(* after another, with the same Kraken credentials                         *)
(***************************************************************************)
\* The (pair, amount) of the trades asked for
ETrades == { <<SlashUsd(BTC), Amount(0, 1, 2)>>, <<SlashUsd(ETH), Amount(0, 5, 1)>> }

EBalanceResponses ==
  { [kind |-> "invokeError"],
    [kind |-> "result", result |-> { <<XXBT, Txt002>> }],
    [kind |-> "result", result |-> { <<XXBT, Txt002>>, <<XETH, Txt01>>, <<ZUSD, Txt100>> }] }

\* executeValidatedTrade('kraken', pair, side, amount) in live mode with saved
\* keys, lines 150-166: createKrakenService builds a new service, whose
\* constructor asks the feed for prices, and placeValidatedOrder is called on
\* it and runs to the await of line 177 of krakenService.ts
executeValidatedTrade(p, pair, side, amount) ==
  /\ p = SeqCaller
  /\ \A q \in Procs : pc[q] = "idle"
  /\ cachedBalances' = {}
  /\ lastBalanceUpdate' = 0
  /\ cryptoPrices' = {}
  /\ lastPriceUpdate' = 0
  /\ ctorFetch' = "pending"
  /\ order' = [order EXCEPT ![p] = [pair |-> toExchangeNotation(pair), type |-> side,
                                    volume |-> numberToString(amount)]]
  /\ requested' = [requested EXCEPT ![p] = order'[p]]
  /\ pc' = [pc EXCEPT ![p] = IF PricesStale(now, 0) THEN "awaitFeed" ELSE "pricesReady"]
  /\ kind' = [kind EXCEPT ![p] = "order"]
  /\ feedAsked' = [feedAsked EXCEPT ![p] = PricesStale(now, 0)]
  /\ UNCHANGED vvars
  /\ UNCHANGED <<now, fetchNow, balances, validations, sent, outcome, feedHistory,
                 balanceHistory, balanceAnswer, submitAnswer, overtaken>>
  /\ UNCHANGED appVars

NextE ==
  \/ Tick
  \/ \E resp \in HFeedResponses : CtorFeedReturn(resp)
  \/ \E p \in Procs, t \in ETrades, side \in {"buy", "sell"} :
        executeValidatedTrade(p, t[1], side, t[2])
  \/ \E p \in Procs, resp \in HFeedResponses : FeedReturn(p, resp)
  \/ \E p \in Procs : BalanceStart(p)
  \/ \E p \in Procs, resp \in EBalanceResponses : BalanceReturn(p, resp)
  \/ \E p \in Procs : ValidateAndSubmit(p)
  \/ \E p \in Procs, resp \in COrderResponses : SubmitReturn(p, resp)
  \/ \E p \in Procs : Return(p)

SpecE == Init /\ [][NextE]_vars

(***************************************************************************)
(* A TradeValidator on its own: validateTrade applied to every trade,      *)
(* balance map and price table of the bounded input sets below             *)
(***************************************************************************)
Txt0001 == <<"0", ".", "0", "0", "1">>
Txt00004 == <<"0", ".", "0", "0", "0", "4">>
Txt00002 == <<"0", ".", "0", "0", "0", "2">>

Txt20 == <<"2", "0">>

VBalanceMaps ==
  BalanceMaps
  \cup { { <<XETH, Txt0001>>, <<ZUSD, Txt0>>, <<USD, Txt50>> },
         { <<XETH, Txt00004>>, <<XXBT, Txt00002>> },
         { <<ADA, Txt20>>, <<XLTC, Txt01>>, <<DOT, Txt3>> } }

VPriceTables ==
  { {}, FallbackPrices } \cup { PriceTable(r.data) : r \in {x \in FeedResponses : x.ok} }

VPairs ==
  { SlashUsd(BTC), PlainUsd(XBT), SlashUsd(ETH), PlainUsd(ETH), SlashUsd(XRP),
    PlainUsd(XRP), SlashUsd(LTC), PlainUsd(LTC), SlashUsd(ADA), PlainUsd(ADA),
    SlashUsd(DOT), PlainUsd(DOT), PlainUsd(SOL),
    <<"b", "t", "c", "/", "u", "s", "d">>, <<"x", "b", "t", "u", "s", "d">> }

VAmounts ==
  { NaN, 0 - Amount(0, 5, 1), 0, Amount(0, 5, 5), Amount(0, 1, 4), Amount(0, 5, 4),
    Amount(0, 1, 3), Amount(0, 19, 3), Amount(0, 2, 2), Amount(0, 3, 2),
    Amount(0, 5, 2), Amount(0, 5, 1), Amount(1, 0, 0), Amount(2, 0, 0),
    Amount(20, 0, 0) }

VTrades ==
  { [pair |-> pr, side |-> sd, amount |-> am] :
      pr \in VPairs, sd \in {"buy", "sell"}, am \in VAmounts }
  \cup { [pair |-> pr, side |-> sd, amount |-> am, price |-> Price(2500, 0)] :
           pr \in VPairs, sd \in {"buy", "sell"}, am \in VAmounts }

\* The largest USD value the fixed-point arithmetic of the model holds
MaxValue == 2 * (10 ^ 9)

\* The cost of a buy stays within MaxValue under every price table
InRange(t) ==
  \/ t.side = "sell"
  \/ t.amount = NaN
  \/ t.amount <= 0
  \/ IF HasField(t, "price")
     THEN t.amount <= MaxValue \div t.price
     ELSE \A pt \in VPriceTables :
            t.amount <= MaxValue \div Lookup(pt, parsePair(t.pair)[1], Price(1, 0))

InitV ==
  /\ ServiceInit
  /\ vState = "input"
  /\ vBalances \in VBalanceMaps
  /\ vPrices \in VPriceTables
  /\ vTrade \in {t \in VTrades : InRange(t)}
  /\ vVerdict = NoVerdict
  /\ vRoute = NoRoute
  /\ vAlias = [balances |-> FALSE, prices |-> FALSE]
  /\ vMade = NoValidator
  /\ AppInit

\* new TradeValidator(vBalances, vPrices).validateTrade(vTrade), and the
\* conversions of the pair of vTrade
Judge ==
  /\ vState = "input"
  /\ vState' = "judged"
  /\ vVerdict' = validateTrade(vBalances, vPrices, vTrade)
  /\ vRoute' = PairRoute(vTrade.pair)
  /\ UNCHANGED <<vBalances, vPrices, vTrade, vAlias, vMade>>
  /\ UNCHANGED <<now, serviceVars, ctorFetch, pc, callVars, feedHistory,
                 balanceHistory, callHistory>>
  /\ UNCHANGED appVars

NextV == Judge

SpecV == InitV /\ [][NextV]_vars

(***************************************************************************)
(* The application around the service: TradingProvider (TradingContext.tsx), *)
(* TradingModeToggle, LiveTradingEngine (part_001) and TradeDebugger         *)
(* (ConnectionStatus.tsx).  One service exists at a time: an execution or a  *)
(* debug run starts when no other is in progress.                            *)
(***************************************************************************)
\* What the handlers of the application leave alone
coreVars == <<now, serviceVars, ctorFetch, pc, callVars, feedHistory, balanceHistory,
              callHistory, vvars>>

Kraken == <<"k", "r", "a", "k", "e", "n">>
KrakenCapital == <<"K", "r", "a", "k", "e", "n">>
Binance == <<"b", "i", "n", "a", "n", "c", "e">>

\* String.prototype.toLowerCase
LowerChar(c) ==
  IF \E i \in 1..26 : UpperChars[i] = c
  THEN LowerChars[CHOOSE i \in 1..26 : UpperChars[i] = c]
  ELSE c
toLowerCase(s) == [i \in 1..Len(s) |-> LowerChar(s[i])]

\* What updateApiKey stores for key and secret
SavedKeys == [key |-> "K", secret |-> "S", status |-> "saved"]
\* localStorage 'apiKeys' at start-up: nothing, or what updateApiKey wrote
StoredKeys == {NoKeys, SavedKeys}
StoredModes == {"none", "paper", "live"}
Strategies == {"scalping", "arbitrage", "momentum"}

\* The inputs of the application
AExchanges == {Kraken, KrakenCapital, Binance}
\* (pair, amount, volume as the debugger's text field holds it)
ATrades == { <<SlashUsd(ETH), Amount(0, 1, 2), Vol001>>, <<SlashUsd(BTC), 0, Vol0>> }
ABalanceResponses ==
  { [kind |-> "invokeError"],
    [kind |-> "result", result |-> { <<ZUSD, Txt1000>>, <<XETH, Txt01>> }] }
AOrderResponses == COrderResponses \cup { [kind |-> "invokeError"] }
\* LiveTradingEngine, line 390: the volume of the timer is 0.005 at least
EngineTrades == { t \in ATrades : t[2] > 0 }

\* Mutant: the effect does not look at the mode
EffectRuns_AnyMode(running, live) == running

\* LiveTradingEngine, line 380: the trade effect sets its timer
EffectRuns(running, live) == running /\ live

\* LiveTradingEngine, lines 379-399: the timer after a render in which the
\* engine saw `running`, `strategies`, `live` and `keys`.  The effect runs
\* again only when one of its dependencies [isEngineRunning, activeStrategies,
\* isLiveMode] has changed; a timer that stays keeps the functions of the
\* render that set it, and with them the apiKeys that render saw
TradeEffect(running, strategies, live, keys) ==
  IF <<running, strategies, live>> = <<isEngineRunning, activeStrategies, isLiveMode>>
  THEN interval
  ELSE IF EffectRuns(running, live)
  THEN [strategies |-> strategies, isLiveMode |-> live, apiKeys |-> keys]
  ELSE NoInterval

\* TradingProvider, lines 41-62: the mode and the keys are restored
Mount(stored) ==
  /\ ~mounted
  /\ mounted' = TRUE
  /\ isLiveMode' = (tradingMode = "live")
  /\ apiKeys' = stored
  /\ interval' = TradeEffect(isEngineRunning, activeStrategies, isLiveMode', stored)
  /\ UNCHANGED <<showLiveWarning, tradingMode, testing, isEngineRunning,
                 activeStrategies, exec, debug, logVars>>
  /\ UNCHANGED coreVars

\* Mutant: the switch turns live mode on
handleToggle_Direct(checked) ==
  /\ mounted
  /\ checked = ~isLiveMode
  /\ isLiveMode' = checked
  /\ tradingMode' = IF checked THEN "live" ELSE "paper"
  /\ interval' = TradeEffect(isEngineRunning, activeStrategies, isLiveMode', apiKeys)
  /\ UNCHANGED <<mounted, showLiveWarning, keyVars, isEngineRunning, activeStrategies,
                 exec, debug, logVars>>
  /\ UNCHANGED coreVars

\* TradingModeToggle.handleToggle, lines 13-20, with setIsLiveMode of
\* TradingContext.tsx, lines 64-68; the switch shows isLiveMode and reports
\* the opposite
handleToggle(checked) ==
  /\ mounted
  /\ checked = ~isLiveMode
  /\ IF checked
     THEN /\ showLiveWarning' = TRUE
          /\ UNCHANGED <<isLiveMode, tradingMode>>
     ELSE /\ isLiveMode' = FALSE
          /\ tradingMode' = "paper"
          /\ UNCHANGED showLiveWarning
  /\ interval' = TradeEffect(isEngineRunning, activeStrategies, isLiveMode', apiKeys)
  /\ UNCHANGED <<mounted, keyVars, isEngineRunning, activeStrategies, exec, debug,
                 logVars>>
  /\ UNCHANGED coreVars

\* TradingModeToggle.confirmLiveMode, lines 22-26
confirmLiveMode ==
  /\ showLiveWarning
  /\ isLiveMode' = TRUE
  /\ showLiveWarning' = FALSE
  /\ tradingMode' = "live"
  /\ interval' = TradeEffect(isEngineRunning, activeStrategies, TRUE, apiKeys)
  /\ UNCHANGED <<mounted, keyVars, isEngineRunning, activeStrategies, exec, debug,
                 logVars>>
  /\ UNCHANGED coreVars

\* TradingModeToggle.cancelLiveMode, lines 28-30
cancelLiveMode ==
  /\ showLiveWarning
  /\ showLiveWarning' = FALSE
  /\ UNCHANGED <<mounted, isLiveMode, tradingMode, keyVars, engineVars, exec, debug,
                 logVars>>
  /\ UNCHANGED coreVars

\* TradingProvider.updateApiKey('kraken', key, secret), lines 70-86
updateApiKey(key, secret) ==
  /\ mounted
  /\ apiKeys' = IF key = "" \/ secret = ""
                THEN apiKeys
                ELSE [key |-> key, secret |-> secret, status |-> "saved"]
  /\ UNCHANGED <<modeVars, testing, engineVars, exec, debug, logVars>>
  /\ UNCHANGED coreVars

\* TradingProvider.clearApiKey('kraken'), lines 125-131
clearApiKey ==
  /\ mounted
  /\ apiKeys' = NoKeys
  /\ UNCHANGED <<modeVars, testing, engineVars, exec, debug, logVars>>
  /\ UNCHANGED coreVars

\* TradingProvider.testConnection('kraken'), lines 88-101: to the await.  The
\* service it creates is its own and is not followed here
TestStart ==
  /\ mounted
  /\ ~testing
  /\ apiKeys.key # "" /\ apiKeys.secret # ""
  /\ testing' = TRUE
  /\ UNCHANGED <<modeVars, apiKeys, engineVars, exec, debug, logVars>>
  /\ UNCHANGED coreVars

\* testConnection, lines 103-122: setApiKeys(prev => ...) once the service
\* has answered
TestEnd(success) ==
  /\ testing
  /\ testing' = FALSE
  /\ apiKeys' = [apiKeys EXCEPT !.status = IF success THEN "saved" ELSE "error"]
  /\ UNCHANGED <<modeVars, engineVars, exec, debug, logVars>>
  /\ UNCHANGED coreVars

\* LiveTradingEngine, lines 344 and 361: the keys the engine asks for
EngineKeysOk(keys) == keys.key # "" /\ keys.status = "saved"

\* Mutant: the engine starts in any mode
MayStart_AnyMode(live, keys) == EngineKeysOk(keys)

\* LiveTradingEngine.startEngine and toggleStrategy, lines 338-348 and
\* 355-365: the two early returns are passed
MayStart(live, keys) == live /\ EngineKeysOk(keys)

\* LiveTradingEngine.startEngine, lines 354-370
startEngine ==
  /\ mounted
  /\ isEngineRunning' = (isEngineRunning \/ MayStart(isLiveMode, apiKeys))
  /\ interval' = TradeEffect(isEngineRunning', activeStrategies, isLiveMode, apiKeys)
  /\ UNCHANGED <<modeVars, keyVars, activeStrategies, exec, debug, logVars>>
  /\ UNCHANGED coreVars

\* LiveTradingEngine.stopEngine, lines 372-377
stopEngine ==
  /\ mounted
  /\ isEngineRunning' = FALSE
  /\ activeStrategies' = {}
  /\ interval' = TradeEffect(FALSE, {}, isLiveMode, apiKeys)
  /\ UNCHANGED <<modeVars, keyVars, exec, debug, logVars>>
  /\ UNCHANGED coreVars

\* LiveTradingEngine.toggleStrategy(strategy), lines 337-352
toggleStrategy(strategy) ==
  /\ mounted
  /\ activeStrategies' =
       IF MayStart(isLiveMode, apiKeys)
       THEN IF strategy \in activeStrategies
            THEN activeStrategies \ {strategy}
            ELSE activeStrategies \cup {strategy}
       ELSE activeStrategies
  /\ interval' = TradeEffect(isEngineRunning, activeStrategies', isLiveMode, apiKeys)
  /\ UNCHANGED <<modeVars, keyVars, isEngineRunning, exec, debug, logVars>>
  /\ UNCHANGED coreVars

\* No execution and no debug run is in progress
Quiet ==
  /\ \A q \in Procs : pc[q] = "idle"
  /\ exec.state # "placing"
  /\ debug.state \notin {"connection", "balance", "order"}

\* createKrakenService(key, secret), krakenService.ts lines 299-304 and 45-49:
\* a new service, whose constructor asks the feed for prices
NewService ==
  /\ cachedBalances' = {}
  /\ lastBalanceUpdate' = 0
  /\ cryptoPrices' = {}
  /\ lastPriceUpdate' = 0
  /\ ctorFetch' = "pending"

\* placeValidatedOrder(o) on the service just created, to the await of line 177
PlaceOnNew(p, o) ==
  /\ order' = [order EXCEPT ![p] = o]
  /\ requested' = [requested EXCEPT ![p] = o]
  /\ pc' = [pc EXCEPT ![p] = IF PricesStale(now, 0) THEN "awaitFeed" ELSE "pricesReady"]
  /\ kind' = [kind EXCEPT ![p] = "order"]
  /\ feedAsked' = [feedAsked EXCEPT ![p] = PricesStale(now, 0)]
  /\ UNCHANGED <<now, fetchNow, balances, validations, sent, outcome, feedHistory,
                 balanceHistory, balanceAnswer, submitAnswer, overtaken, vvars>>

\* What an executeValidatedTrade invocation is recorded with: who called, the
\* isLiveMode and apiKeys the function sees (those of the render it belongs
\* to), and the apiKeys of the provider at that moment
Invocation(by, c, exchange) ==
  [by |-> by, isLiveMode |-> c.isLiveMode, apiKeys |-> c.apiKeys, keysThen |-> apiKeys,
   exchange |-> exchange]

\* An invocation that has returned `value` after `toasts` toast messages,
\* with `response` what placeValidatedOrder returned to it, if it was called
Returned(inv, value, toasts, response) ==
  [state |-> "returned", inv |-> inv, value |-> value, toasts |-> toasts,
   response |-> response]

\* Mutant: the keys are not looked at
KeysUsable_Unchecked(keys) == TRUE

\* executeValidatedTrade, line 144: !key || !secret || status !== 'saved' is false
KeysUsable(keys) == keys.key # "" /\ keys.secret # "" /\ keys.status = "saved"

\* executeValidatedTrade(exchange, pair, side, amount) of the render that saw
\* c.isLiveMode and c.apiKeys, lines 133-166 and 227-229: to its return, or to
\* the await of placeValidatedOrder on a new service
ExecuteTrade(p, by, c, exchange, pair, side, amount) ==
  /\ p = SeqCaller
  /\ Quiet
  /\ IF ~c.isLiveMode
     THEN /\ exec' = Returned(Invocation(by, c, exchange), FALSE, 1, NoOutcome)
          /\ UNCHANGED coreVars
     ELSE IF toLowerCase(exchange) # Kraken
     THEN /\ exec' = Returned(Invocation(by, c, exchange), FALSE, 1, NoOutcome)
          /\ UNCHANGED coreVars
     ELSE IF ~KeysUsable(c.apiKeys)
     THEN /\ exec' = Returned(Invocation(by, c, exchange), FALSE, 1, NoOutcome)
          /\ UNCHANGED coreVars
     ELSE /\ exec' = [state |-> "placing", inv |-> Invocation(by, c, exchange)]
          /\ NewService
          /\ PlaceOnNew(p, [pair |-> toExchangeNotation(pair), type |-> side,
                            volume |-> numberToString(amount)])
  /\ UNCHANGED <<modeVars, keyVars, engineVars, debug, logVars>>

\* A component calls the executeValidatedTrade of the context it renders with
Consumer(p, exchange, pair, side, amount) ==
  /\ mounted
  /\ ExecuteTrade(p, "consumer", [isLiveMode |-> isLiveMode, apiKeys |-> apiKeys],
                  exchange, pair, side, amount)

\* LiveTradingEngine, lines 382-396 and 290-307: the timer fires and
\* executeKrakenTrade calls the executeValidatedTrade its render had
EngineTrade(p, pair, side, volume) ==
  /\ interval # NoInterval
  /\ interval.strategies # {}
  /\ ExecuteTrade(p, "engine", interval, Kraken, pair, side, volume)

\* Mutant: an error outcome counts as a success
Succeeded_Always(response) == TRUE

\* executeValidatedTrade, lines 170-209: the value returned for what
\* placeValidatedOrder returned
Succeeded(response) ==
  IF HasField(response, "error") /\ Len(response.error) > 0
  THEN FALSE
  ELSE HasField(response, "result")

\* executeValidatedTrade, lines 168-209: placeValidatedOrder has returned
ExecuteReturn(p) ==
  /\ exec.state = "placing"
  /\ pc[p] = "done"
  /\ exec' = Returned(exec.inv, Succeeded(outcome[p]), 1, outcome[p])
  /\ UNCHANGED <<modeVars, keyVars, engineVars, debug, logVars>>
  /\ UNCHANGED coreVars

\* A debugTrade run that has ended at `step`
DebugEnded(run, step) == [run EXCEPT !.state = "ended", !.step = step]

\* getAccountBalance() is called on the service of the run, to its return or
\* to the await of line 101, with the call of caller p started afresh; `last`
\* and `cached` are the service's lastBalanceUpdate and cachedBalances
DebugGetBalance(p, last, cached) ==
  /\ kind' = [kind EXCEPT ![p] = "balance"]
  /\ balanceAnswer' = [balanceAnswer EXCEPT ![p] = "none"]
  /\ overtaken' = [overtaken EXCEPT ![p] = FALSE]
  /\ IF BalanceCacheHit(now, last, cached)
     THEN /\ pc' = [pc EXCEPT ![p] = "done"]
          /\ balances' = [balances EXCEPT ![p] = cached]
          /\ outcome' = [outcome EXCEPT ![p] = [balances |-> cached]]
          /\ fetchNow' = [fetchNow EXCEPT ![p] = 0]
     ELSE /\ pc' = [pc EXCEPT ![p] = "awaitBalance"]
          /\ balances' = [balances EXCEPT ![p] = {}]
          /\ outcome' = [outcome EXCEPT ![p] = NoOutcome]
          /\ fetchNow' = [fetchNow EXCEPT ![p] = now]
  /\ UNCHANGED <<now, order, requested, validations, sent, feedHistory,
                 balanceHistory, feedAsked, submitAnswer, vvars>>

\* TradeDebugger.debugTrade, ConnectionStatus.tsx lines 112-138: the keys are
\* checked, a service is created and testConnection calls getAccountBalance.
\* t is the pair, the amount and the text of the amount field
debugTrade(p, t, side) ==
  /\ mounted
  /\ p = SeqCaller
  /\ Quiet
  /\ IF apiKeys.key = "" \/ apiKeys.secret = "" \/ apiKeys.status # "saved"
     THEN /\ debug' = [state |-> "ended", step |-> "api-check", isLiveMode |-> isLiveMode,
                       trade |-> t, side |-> side]
          /\ UNCHANGED coreVars
     ELSE /\ debug' = [state |-> "connection", step |-> "connection",
                       isLiveMode |-> isLiveMode, trade |-> t, side |-> side]
          /\ NewService
          /\ DebugGetBalance(p, 0, {})
  /\ UNCHANGED <<modeVars, keyVars, engineVars, exec, logVars>>

\* debugTrade, lines 139-153: testConnection has returned; on success
\* getAccountBalance is called
DebugConnected(p) ==
  /\ debug.state = "connection"
  /\ pc[p] = "done"
  /\ IF HasField(outcome[p], "error")
     THEN /\ debug' = DebugEnded(debug, "connection")
          /\ UNCHANGED coreVars
     ELSE /\ debug' = [debug EXCEPT !.state = "balance", !.step = "balance"]
          /\ DebugGetBalance(p, lastBalanceUpdate, cachedBalances)
          /\ UNCHANGED <<serviceVars, ctorFetch>>
  /\ UNCHANGED <<modeVars, keyVars, engineVars, exec, logVars>>

\* The TradeRequest of debugTrade, lines 170-175
DebugTradeOf(run) ==
  [pair |-> run.trade[1], side |-> run.side, amount |-> parseFloat(run.trade[3])]

\* The order of debugTrade, lines 196-205
DebugOrderOf(run) ==
  [pair |-> toExchangeNotation(run.trade[1]), type |-> run.side, volume |-> run.trade[3]]

\* debugTrade, lines 164-193: the run goes on to placeValidatedOrder; `live`
\* is the isLiveMode of the render the run was started from
DebugPlaces(live, validator, verdictValid) ==
  /\ validator # NoValidator
  /\ verdictValid \/ live
  /\ live

\* debugTrade, lines 154-205: getAccountBalance has returned; the trade is
\* validated and, in live mode, placeValidatedOrder is called
DebugBalanced(p) ==
  /\ debug.state = "balance"
  /\ pc[p] = "done"
  /\ IF HasField(outcome[p], "error")
     THEN /\ debug' = DebugEnded(debug, "balance")
          /\ UNCHANGED coreVars
     ELSE IF DebugPlaces(debug.isLiveMode, getTradeValidator,
                         getTradeValidator # NoValidator
                           /\ validateTrade(cachedBalances, cryptoPrices,
                                            DebugTradeOf(debug)).isValid)
     THEN /\ debug' = [debug EXCEPT !.state = "order", !.step = "order"]
          /\ order' = [order EXCEPT ![p] = DebugOrderOf(debug)]
          /\ requested' = [requested EXCEPT ![p] = DebugOrderOf(debug)]
          /\ pc' = [pc EXCEPT ![p] = IF PricesStale(now, lastPriceUpdate)
                                     THEN "awaitFeed" ELSE "pricesReady"]
          /\ kind' = [kind EXCEPT ![p] = "order"]
          /\ feedAsked' = [feedAsked EXCEPT ![p] = PricesStale(now, lastPriceUpdate)]
          /\ fetchNow' = [fetchNow EXCEPT ![p] = 0]
          /\ balances' = [balances EXCEPT ![p] = {}]
          /\ outcome' = [outcome EXCEPT ![p] = NoOutcome]
          /\ balanceAnswer' = [balanceAnswer EXCEPT ![p] = "none"]
          /\ overtaken' = [overtaken EXCEPT ![p] = FALSE]
          /\ UNCHANGED <<now, serviceVars, ctorFetch, validations, sent, feedHistory,
                         balanceHistory, submitAnswer, vvars>>
     ELSE /\ debug' = DebugEnded(debug,
                       IF getTradeValidator = NoValidator
                          \/ ~validateTrade(cachedBalances, cryptoPrices,
                                            DebugTradeOf(debug)).isValid
                       THEN "validation" ELSE "skipped")
          /\ UNCHANGED coreVars
  /\ UNCHANGED <<modeVars, keyVars, engineVars, exec, logVars>>

\* debugTrade, lines 207-220: placeValidatedOrder has returned
DebugOrdered(p) ==
  /\ debug.state = "order"
  /\ pc[p] = "done"
  /\ debug' = DebugEnded(debug, "order")
  /\ UNCHANGED <<modeVars, keyVars, engineVars, exec, logVars>>
  /\ UNCHANGED coreVars

\* Nothing is left of an invocation: none is in progress and none has a
\* result that is still looked at
Settled ==
  /\ Quiet
  /\ exec = NoExec
  /\ debug = NoDebug

\* The invocation has returned and its result has been looked at.  The
\* service it created was a local of the invocation (TradingContext.tsx line
\* 152, ConnectionStatus.tsx line 135) and is out of reach from here on; the
\* next invocation creates its own
Discard(p) ==
  /\ p = SeqCaller
  /\ Quiet
  /\ exec.state = "returned" \/ debug.state = "ended"
  /\ exec' = NoExec
  /\ debug' = NoDebug
  /\ cachedBalances' = {}
  /\ lastBalanceUpdate' = 0
  /\ cryptoPrices' = {}
  /\ lastPriceUpdate' = 0
  /\ ctorFetch' = "pending"
  /\ fetchedAt' = 0
  /\ orderSince' = FALSE
  /\ feedOkAt' = 0
  /\ feedFailAt' = 0
  /\ UNCHANGED <<now, pc, callVars, callHistory, vvars>>
  /\ UNCHANGED <<modeVars, keyVars, engineVars, logVars>>

\* The invocation lets go of the response of its service
Handed(p) ==
  /\ exec.state # "placing"
  /\ debug.state \notin {"connection", "balance", "order"}
  /\ exec.state = "returned" \/ debug.state = "ended"
  /\ Return(p)

\* The application at start-up, with what the browser has stored
InitA ==
  /\ ServiceInit
  /\ vState = "off"
  /\ vBalances = {}
  /\ vPrices = {}
  /\ vTrade = NoTrade
  /\ vVerdict = NoVerdict
  /\ vRoute = NoRoute
  /\ vAlias = [balances |-> FALSE, prices |-> FALSE]
  /\ vMade = NoValidator
  /\ AppConstructed
  /\ tradingMode \in StoredModes

\* The application.  An invocation works on the isLiveMode and apiKeys of the
\* render it was started from and on a service of its own, so what the user
\* does while it is in progress does not reach it: the steps of the user are
\* taken between invocations
NextA ==
  \/ \E stored \in StoredKeys : Settled /\ Mount(stored)
  \/ \E checked \in BOOLEAN : Settled /\ handleToggle(checked)
  \/ Settled /\ confirmLiveMode
  \/ Settled /\ cancelLiveMode
  \/ \E key \in {"", "K"}, secret \in {"", "S"} : Settled /\ updateApiKey(key, secret)
  \/ Settled /\ clearApiKey
  \/ Settled /\ TestStart
  \/ \E success \in BOOLEAN : Settled /\ TestEnd(success)
  \/ Settled /\ startEngine
  \/ Settled /\ stopEngine
  \/ \E strategy \in Strategies : Settled /\ toggleStrategy(strategy)
  \/ \E p \in Procs, x \in AExchanges, t \in ATrades, side \in {"buy", "sell"} :
        Settled /\ Consumer(p, x, t[1], side, t[2])
  \/ \E p \in Procs, t \in EngineTrades, side \in {"buy", "sell"} :
        Settled /\ EngineTrade(p, t[1], side, t[2])
  \/ \E p \in Procs : ExecuteReturn(p)
  \/ \E p \in Procs, t \in ATrades, side \in {"buy", "sell"} :
        Settled /\ debugTrade(p, t, side)
  \/ \E p \in Procs : DebugConnected(p)
  \/ \E p \in Procs : DebugBalanced(p)
  \/ \E p \in Procs : DebugOrdered(p)
  \/ \E resp \in CFeedResponses : ~Settled /\ CtorFeedReturn(resp)
  \/ \E p \in Procs, resp \in CFeedResponses : FeedReturn(p, resp)
  \/ \E p \in Procs : BalanceStart(p)
  \/ \E p \in Procs, resp \in ABalanceResponses : BalanceReturn(p, resp)
  \/ \E p \in Procs : ValidateAndSubmit(p)
  \/ \E p \in Procs, resp \in AOrderResponses : SubmitReturn(p, resp)
  \/ \E p \in Procs : Handed(p)
  \/ \E p \in Procs : Discard(p)

SpecA == InitA /\ [][NextA]_vars

(***************************************************************************)
(* The error log: ErrorLogger.tsx.  An entry is the serial number of the     *)
(* logError call that made it, so that a later entry has a larger number;    *)
(* the handlers of the application write to the log without reading it, and  *)
(* the log is followed on its own.                                           *)
(***************************************************************************)
\* ErrorLogger.tsx, line 35: the 100 of slice(0, 100)
LogLimit == 100

\* Mutant: the last LogLimit entries are kept
Kept_Last(entries) ==
  IF Len(entries) <= LogLimit THEN entries
  ELSE SubSeq(entries, Len(entries) - LogLimit + 1, Len(entries))

\* entries.slice(0, 100)
Kept(entries) ==
  IF Len(entries) <= LogLimit THEN entries ELSE SubSeq(entries, 1, LogLimit)

\* setLogs(prev => [newLog, ...prev].slice(0, 100)), line 35
Logged(newLog, prev) == Kept(<<newLog>> \o prev)

\* ErrorLogger, lines 23-39: the component mounts, installs window.logError
\* and logs its first message
LoggerMount ==
  /\ logCalls = 0
  /\ logCalls' = 1
  /\ logs' = Logged(1, logs)
  /\ UNCHANGED <<coreVars, modeVars, keyVars, engineVars, exec, debug>>

\* window.logError(type, message, details, source), lines 25-36, once the
\* component has installed it
logError ==
  /\ logCalls > 0
  /\ logCalls < MaxLogCalls
  /\ logCalls' = logCalls + 1
  /\ logs' = Logged(logCalls', logs)
  /\ UNCHANGED <<coreVars, modeVars, keyVars, engineVars, exec, debug>>

\* ErrorLogger.clearLogs, lines 70-73: setLogs([]) and then logError
clearLogs ==
  /\ logCalls > 0
  /\ logCalls < MaxLogCalls
  /\ logCalls' = logCalls + 1
  /\ logs' = Logged(logCalls', <<>>)
  /\ UNCHANGED <<coreVars, modeVars, keyVars, engineVars, exec, debug>>

NextL ==
  \/ LoggerMount
  \/ logError
  \/ clearLogs

SpecL == Init /\ [][NextL]_vars

(***************************************************************************)
(* What the claims are stated with                                         *)
(***************************************************************************)
\* The last validateTrade call of caller p's invocation
LastValidation(p) == validations[p][Len(validations[p])]

\* The invocation of caller p has returned an error outcome
EndedInError(p) ==
  /\ pc[p] = "done"
  /\ HasField(outcome[p], "error")
  /\ Len(outcome[p].error) > 0

\* The minimum order size of a pair as the specification states it: the entry
\* of the table for the pair name, 0.0001 when there is none
StatedMinimum(pair) ==
  IF \E e \in minOrderSizes : e[1] = pair
  THEN (CHOOSE e \in minOrderSizes : e[1] = pair)[2]
  ELSE Amount(0, 1, 4)

\* The price of an asset as the specification states it: its entry in the
\* price table, 1 USD when it has none
StatedPrice(prices, asset) ==
  IF \E e \in prices : e[1] = asset
  THEN (CHOOSE e \in prices : e[1] = asset)[2]
  ELSE Price(1, 0)

\* The estimated cost of a buy as the specification states it
StatedCost(prices, t) ==
  IF HasField(t, "price")
  THEN JsMul(t.price, t.amount)
  ELSE JsMul(StatedPrice(prices, parsePair(t.pair)[1]), t.amount)

\* The total portfolio value as the specification states it
RECURSIVE StatedPortfolio(_, _)
StatedPortfolio(bal, prices) ==
  IF bal = {} THEN 0
  ELSE LET e == CHOOSE x \in bal : TRUE
       IN parseFloat(e[2]) * StatedPrice(prices, e[1])
          + StatedPortfolio(bal \ {e}, prices)

\* The direct USD balance: the ZUSD entry, else the USD entry, else nothing
StatedDirectUsd(bal) ==
  IF \E e \in bal : e[1] = ZUSD
  THEN parseFloat((CHOOSE e \in bal : e[1] = ZUSD)[2]) * PriceScale
  ELSE IF \E e \in bal : e[1] = USD
  THEN parseFloat((CHOOSE e \in bal : e[1] = USD)[2]) * PriceScale
  ELSE 0

\* The held balance of the base asset of a pair: the entry of the balance map
\* under the asset code of the base, nothing when there is none
StatedHeld(bal, pair) ==
  IF \E e \in bal : e[1] = parsePair(pair)[1]
  THEN parseFloat((CHOOSE e \in bal : e[1] = parsePair(pair)[1])[2])
  ELSE 0

\* max(0.95 x held, minimum order size)
StatedSellAdjustment(bal, pair) ==
  IF (StatedHeld(bal, pair) * 95) \div 100 >= StatedMinimum(pair)
  THEN (StatedHeld(bal, pair) * 95) \div 100
  ELSE StatedMinimum(pair)

\* A sell that passes the amount checks and asks for more than is held
InsufficientSell(bal, t) ==
  /\ t.side = "sell"
  /\ ~JsLe(t.amount, 0)
  /\ ~JsLt(t.amount, StatedMinimum(t.pair))
  /\ JsGt(t.amount, StatedHeld(bal, t.pair))

\* The trade passes the two amount checks of validateTrade
PassesAmountChecks(t) ==
  ~JsLe(t.amount, 0) /\ ~JsLt(t.amount, StatedMinimum(t.pair))

\* A buy the portfolio can pay for and the direct USD balance cannot
AdvisoryCase(bal, prices, t) ==
  /\ t.side = "buy"
  /\ JsLe(StatedCost(prices, t), StatedPortfolio(bal, prices))
  /\ JsLt(StatedDirectUsd(bal), StatedCost(prices, t))

(***************************************************************************)
(* The claims                                                              *)
(***************************************************************************)
\* C1: in one invocation of placeValidatedOrder the gateway action
\* 'placeOrder' is invoked at most once, whatever the first verdict was and
\* whether or not an adjustment and revalidation ran.
C1_AtMostOneGatewayCall ==
  \A p \in Procs : Len(sent[p]) <= 1

\* C1 witness: an invocation that adjusted, revalidated and has returned, with
\* one request sent
C1_Witness ==
  \E p \in Procs : pc[p] = "done" /\ Len(validations[p]) = 2 /\ Len(sent[p]) = 1

\* C2: an order is handed to the gateway only if the last verdict of the
\* invocation is valid and was computed for the volume that is sent; if the
\* last verdict is invalid (first verdict without adjustedAmount, or failed
\* revalidation) the invocation ends in an error outcome with nothing sent.
C2_SubmitsOnlyValidated ==
  \A p \in Procs :
    /\ Len(sent[p]) > 0 =>
         /\ Len(validations[p]) > 0
         /\ LastValidation(p).verdict.isValid
         /\ LastValidation(p).trade.amount = parseFloat(sent[p][1].volume)
    /\ (Len(validations[p]) > 0 /\ ~LastValidation(p).verdict.isValid) =>
         /\ sent[p] = <<>>
         /\ EndedInError(p)

\* C2 witness: a revalidation that failed, the invocation ended in error
C2_Witness ==
  \E p \in Procs :
    /\ Len(validations[p]) = 2
    /\ ~validations[p][2].verdict.isValid
    /\ EndedInError(p)

\* C3: validateTrade runs at most twice in one invocation; the second run
\* happens only after an invalid first verdict that carries an adjustedAmount,
\* judges that adjustedAmount, and uses the balances and prices (and pair,
\* side and price) of the first run.
C3_AtMostOneRevalidation ==
  \A p \in Procs :
    /\ Len(validations[p]) <= 2
    /\ Len(validations[p]) = 2 =>
         LET a == validations[p][1]
             b == validations[p][2]
         IN /\ ~a.verdict.isValid
            /\ HasField(a.verdict, "adjustedAmount")
            /\ b.trade = [a.trade EXCEPT !.amount = a.verdict.adjustedAmount]
            /\ b.balances = a.balances
            /\ b.prices = a.prices

\* C3 witness: an invocation that revalidated a lowered sell amount
C3_Witness ==
  \E p \in Procs :
    /\ Len(validations[p]) = 2
    /\ validations[p][1].trade.side = "sell"
    /\ validations[p][2].trade.amount < validations[p][1].trade.amount

\* C4 as stated: whenever a verdict carries an adjustedAmount, it is strictly
\* less than the amount of the proposal.
C4_AdjustedBelowAmount ==
  (vState = "judged" /\ HasField(vVerdict, "adjustedAmount"))
    => JsLt(vVerdict.adjustedAmount, vTrade.amount)

\* C5 as stated: the volume sent to the gateway never exceeds the volume the
\* caller asked for.
C5_NeverAboveRequested ==
  \A p \in Procs :
    Len(sent[p]) > 0 =>
      ~JsGt(parseFloat(sent[p][1].volume), parseFloat(requested[p].volume))

\* C6 as stated: a proposal whose amount is below the minimum order size of
\* its pair gets an invalid verdict whose adjustedAmount is that minimum.
C6_BelowMinimumAsStated ==
  (vState = "judged" /\ JsLt(vTrade.amount, StatedMinimum(vTrade.pair)))
    => /\ ~vVerdict.isValid
       /\ HasField(vVerdict, "adjustedAmount")
       /\ vVerdict.adjustedAmount = StatedMinimum(vTrade.pair)

\* C6 amended: a proposal whose amount is positive and below the minimum order
\* size of its pair (the table entry for the pair name, 0.0001 when there is
\* none) gets an invalid verdict whose adjustedAmount is that minimum.
C6_PositiveBelowMinimum ==
  (vState = "judged" /\ JsGt(vTrade.amount, 0)
     /\ JsLt(vTrade.amount, StatedMinimum(vTrade.pair)))
    => /\ ~vVerdict.isValid
       /\ HasField(vVerdict, "adjustedAmount")
       /\ vVerdict.adjustedAmount = StatedMinimum(vTrade.pair)

\* C6 witness: a positive amount below the default minimum of a pair that is
\* not in the table
C6_Witness ==
  /\ vState = "judged"
  /\ vTrade.pair = PlainUsd(SOL)
  /\ vTrade.amount = Amount(0, 5, 5)
  /\ HasField(vVerdict, "adjustedAmount")

\* C7: a proposal whose amount is zero or negative is judged invalid with no
\* adjustedAmount, and placeValidatedOrder then ends in an error outcome with
\* no revalidation and no gateway call.
C7_NonPositiveRejected ==
  \A p \in Procs :
    (Len(validations[p]) > 0 /\ JsLe(validations[p][1].trade.amount, 0)) =>
      /\ ~validations[p][1].verdict.isValid
      /\ ~HasField(validations[p][1].verdict, "adjustedAmount")
      /\ Len(validations[p]) = 1
      /\ sent[p] = <<>>
      /\ EndedInError(p)

\* C7 witness: a sell of a negative amount has been rejected
C7_Witness ==
  \E p \in Procs :
    /\ EndedInError(p)
    /\ Len(validations[p]) = 1
    /\ validations[p][1].trade.side = "sell"
    /\ validations[p][1].trade.amount < 0

\* C8: whenever a verdict carries an adjustedAmount, it is at least the
\* minimum order size of the pair of the proposal.
C8_AdjustedAtLeastMinimum ==
  (vState = "judged" /\ HasField(vVerdict, "adjustedAmount"))
    => JsLe(StatedMinimum(vTrade.pair), vVerdict.adjustedAmount)

\* C8 witness: a sell adjusted to 95% of the held balance, above the minimum
C8_Witness ==
  /\ vState = "judged"
  /\ vTrade.side = "sell"
  /\ HasField(vVerdict, "adjustedAmount")
  /\ vVerdict.adjustedAmount > StatedMinimum(vTrade.pair)

\* C9: for a buy that passes the amount checks the verdict is invalid exactly
\* when the total portfolio value is below the estimated cost (price x amount
\* when a price is given, else oracle price of the base x amount), and then
\* requiredBalance is the cost, availableBalance the portfolio value, and
\* there is no adjustedAmount.
C9_BuyAgainstPortfolio ==
  (vState = "judged" /\ vTrade.side = "buy" /\ PassesAmountChecks(vTrade)) =>
    LET cost == StatedCost(vPrices, vTrade)
        value == StatedPortfolio(vBalances, vPrices)
    IN /\ ~vVerdict.isValid <=> JsLt(value, cost)
       /\ ~vVerdict.isValid =>
            /\ HasField(vVerdict, "requiredBalance")
            /\ HasField(vVerdict, "availableBalance")
            /\ vVerdict.requiredBalance = cost
            /\ vVerdict.availableBalance = value
            /\ ~HasField(vVerdict, "adjustedAmount")

\* C9 witness (Scenario A): balances {ZUSD: "1000.00"}, buy 0.5 ETH/USD at
\* 2500: required 1250, available 1000
C9_Witness ==
  /\ vState = "judged"
  /\ vBalances = { <<ZUSD, Txt1000>> }
  /\ vTrade = [pair |-> SlashUsd(ETH), side |-> "buy", amount |-> Amount(0, 5, 1),
               price |-> Price(2500, 0)]
  /\ ~vVerdict.isValid
  /\ vVerdict.requiredBalance = 1250 * AmountScale * PriceScale
  /\ vVerdict.availableBalance = 1000 * AmountScale * PriceScale

\* C10 as stated: a buy whose estimated cost is covered by the portfolio value
\* but not by the direct USD balance gets a valid verdict with an advisory
\* message and no adjustedAmount, and is sent to the gateway with the amount
\* first asked for.
C10_AdvisoryAsStated ==
  \A p \in Procs :
    (Len(validations[p]) > 0
       /\ AdvisoryCase(validations[p][1].balances, validations[p][1].prices,
                       validations[p][1].trade)) =>
      /\ validations[p][1].verdict.isValid
      /\ HasField(validations[p][1].verdict, "error")
      /\ ~HasField(validations[p][1].verdict, "adjustedAmount")
      /\ Len(validations[p]) = 1
      /\ Len(sent[p]) = 1
      /\ sent[p][1] = requested[p]

\* C10 amended: the same for a buy that passes the amount checks (amount
\* positive and at least the minimum order size of the pair).
C10_AdvisoryBuySubmitted ==
  \A p \in Procs :
    (Len(validations[p]) > 0
       /\ PassesAmountChecks(validations[p][1].trade)
       /\ AdvisoryCase(validations[p][1].balances, validations[p][1].prices,
                       validations[p][1].trade)) =>
      /\ validations[p][1].verdict.isValid
      /\ HasField(validations[p][1].verdict, "error")
      /\ ~HasField(validations[p][1].verdict, "adjustedAmount")
      /\ Len(validations[p]) = 1
      /\ Len(sent[p]) = 1
      /\ sent[p][1] = requested[p]

\* C10 witness: an advisory buy has been handed to the gateway
C10_Witness ==
  \E p \in Procs :
    /\ pc[p] = "awaitSubmit"
    /\ Len(validations[p]) = 1
    /\ validations[p][1].verdict = AdvisoryVerdict
    /\ PassesAmountChecks(validations[p][1].trade)
    /\ sent[p] = <<requested[p]>>

\* C11: a sell that passes the amount checks and whose amount exceeds the held
\* balance of the base asset is judged invalid with adjustedAmount =
\* max(0.95 x balance, minimum order size), requiredBalance = the amount asked
\* for and availableBalance = the held balance.
C11_SellAdjustedToBalance ==
  (vState = "judged" /\ InsufficientSell(vBalances, vTrade)) =>
    /\ ~vVerdict.isValid
    /\ HasField(vVerdict, "adjustedAmount")
    /\ vVerdict.adjustedAmount = StatedSellAdjustment(vBalances, vTrade.pair)
    /\ HasField(vVerdict, "requiredBalance")
    /\ vVerdict.requiredBalance = vTrade.amount
    /\ HasField(vVerdict, "availableBalance")
    /\ vVerdict.availableBalance = StatedHeld(vBalances, vTrade.pair)

\* C11 witness (Scenario B): balances {XXBT: "0.02"}, sell 0.05 XBTUSD:
\* adjustedAmount 0.019
C11_Witness ==
  /\ vState = "judged"
  /\ vBalances = { <<XXBT, Txt002>> }
  /\ vTrade = [pair |-> PlainUsd(XBT), side |-> "sell", amount |-> Amount(0, 5, 2)]
  /\ ~vVerdict.isValid
  /\ vVerdict.adjustedAmount = Amount(0, 19, 3)
  /\ vVerdict.requiredBalance = Amount(0, 5, 2)
  /\ vVerdict.availableBalance = Amount(0, 2, 2)

\* C12 as stated: whenever the verdict of a sell carries an adjustedAmount,
\* that amount does not exceed the held base balance and the same validator
\* judges it valid; and an insufficient sell whose held balance is below the
\* minimum order size is judged invalid with no adjustedAmount.
C12_SafeSellCorrection ==
  (vState = "judged" /\ vTrade.side = "sell") =>
    /\ HasField(vVerdict, "adjustedAmount") =>
         /\ JsLe(vVerdict.adjustedAmount, StatedHeld(vBalances, vTrade.pair))
         /\ validateTrade(vBalances, vPrices,
                          [vTrade EXCEPT !.amount = vVerdict.adjustedAmount]).isValid
    /\ (InsufficientSell(vBalances, vTrade)
          /\ JsLt(StatedHeld(vBalances, vTrade.pair), StatedMinimum(vTrade.pair))) =>
         /\ ~vVerdict.isValid
         /\ ~HasField(vVerdict, "adjustedAmount")

\* Caller p's getAccountBalance gets past its cache check in this step
BalanceCheckStep(p) == pc[p] = "pricesReady" /\ pc'[p] # "pricesReady"

\* ... and has sent a remote 'getBalance' request
RemoteFetchStep(p) == BalanceCheckStep(p) /\ pc'[p] = "awaitBalance"

\* Since the last 'placeOrder' result no balances have been fetched: the
\* timestamp of the cache is still the 0 of the invalidation
C13_Reset == orderSince => lastBalanceUpdate = 0

\* A getAccountBalance call that starts then sends a remote request
C13_NextCallFetches ==
  \A p \in Procs : (BalanceCheckStep(p) /\ orderSince) => RemoteFetchStep(p)

C14_OneFetchPerInterval ==
  [][\A p \in Procs :
       (BalanceCheckStep(p) /\ fetchedAt # 0 /\ ~orderSince
          /\ now - fetchedAt < 30000) => ~RemoteFetchStep(p)]_vars

\* The call whose refresh failed has ended in an error, with no balances
\* returned, no validation made and no order sent
C15_Raised ==
  \A p \in Procs :
    balanceAnswer[p] = "failure" =>
      /\ EndedInError(p)
      /\ balances[p] = {}
      /\ validations[p] = <<>>
      /\ sent[p] = <<>>

\* The step in which the refresh fails leaves the cache as it was
C15_CacheKept ==
  \A p \in Procs :
    (balanceAnswer[p] # "failure" /\ balanceAnswer'[p] = "failure") =>
      /\ cachedBalances' = cachedBalances
      /\ lastBalanceUpdate' = lastBalanceUpdate

\* C15: when the remote request of a balance refresh fails (invocation error,
\* gateway error or missing result) getAccountBalance raises an error and
\* returns no map, cachedBalances and lastBalanceUpdate stay as they were,
\* and a placeValidatedOrder that met the failure ends in an error outcome
\* with no validation and no 'placeOrder' request.
C15_RefreshFailureRaises ==
  []C15_Raised /\ [][C15_CacheKept]_vars

\* C15 witness: a placeValidatedOrder whose refresh failed while an older
\* balance map was cached
C15_Witness ==
  \E p \in Procs :
    /\ balanceAnswer[p] = "failure"
    /\ kind[p] = "order"
    /\ cachedBalances # {}
    /\ EndedInError(p)

\* Caller p's placeValidatedOrder runs updateCryptoPricesIfNeeded in this step
PriceCheckStep(p) == pc[p] = "idle" /\ pc'[p] # "idle" /\ kind'[p] = "order"

\* ... and has sent a request to the price feed
FeedRequestStep(p) == PriceCheckStep(p) /\ pc'[p] = "awaitFeed"

\* After a feed answer that was a failure the table is the fallback table
C16_FallbackFilled == feedFailAt' # 0 => cryptoPrices' = FallbackPrices

\* A call that starts within 60 000 ms of that failure sends no feed request
C16_NoRequestAfterFailure ==
  \A p \in Procs :
    (PriceCheckStep(p) /\ feedFailAt # 0 /\ now - feedFailAt <= 60000)
      => ~FeedRequestStep(p)

\* C16 as stated: after a failed feed request the price table is the fallback
\* table, and no placeValidatedOrder call sends a feed request until
\* 60 000 ms have passed since the failure.
C16_FailureMarksFresh ==
  [][C16_FallbackFilled /\ C16_NoRequestAfterFailure]_vars

\* C17: a placeValidatedOrder call sends a feed request only when no price
\* refresh has succeeded in the 60 000 ms before the call; the balance
\* interval plays no part in it.
C17_FeedOnlyWhenStale ==
  [][\A p \in Procs :
       FeedRequestStep(p) => (feedOkAt = 0 \/ now - feedOkAt > 60000)]_vars

\* C17 witness: a call that sent no feed request, less than 60 000 ms after a
\* successful price refresh, and sends a 'getBalance' request because the
\* cached balances are 30 000 ms old or older
C17_Witness ==
  \E p \in Procs :
    /\ kind[p] = "order"
    /\ pc[p] = "awaitBalance"
    /\ ~feedAsked[p]
    /\ feedOkAt # 0
    /\ now - feedOkAt <= 60000
    /\ cachedBalances # {}
    /\ lastBalanceUpdate # 0
    /\ fetchNow[p] - lastBalanceUpdate >= 30000

\* The asset codes the price table is stated to hold
SupportedAssets == {XBT, XXBT, ETH, XETH, XRP, XXRP, LTC, XLTC, ADA, DOT, USD, ZUSD}

\* A price table with a positive price for every supported asset code
FullTable(prices) ==
  \A a \in SupportedAssets : \E e \in prices : e[1] = a /\ e[2] > 0

\* C18 as stated: in every reachable state the price table a validator is
\* built with (by placeValidatedOrder, or by getTradeValidator once balances
\* are cached) holds a positive price for every supported asset code, and
\* the price of an asset without an entry is 1.
C18_PriceTableUsable ==
  /\ \A p \in Procs : \A i \in 1..Len(validations[p]) :
        FullTable(validations[p][i].prices)
  /\ HasField(getTradeValidator, "cryptoPrices") =>
        FullTable(getTradeValidator.cryptoPrices)
  /\ PriceOr1(cryptoPrices, SOL) = Price(1, 0)

\* The supported pairs: the base of each, its human form and its
\* exchange-native form
SupportedBases == {BTC, ETH, XRP, LTC, ADA, DOT}
HumanForm(b) == SlashUsd(b)
NativeForm(b) == IF b = BTC THEN PlainUsd(XBT) ELSE PlainUsd(b)
SupportedPair(pair) ==
  \E b \in SupportedBases : pair = HumanForm(b) \/ pair = NativeForm(b)

\* Two verdicts agree in isValid, adjustedAmount, requiredBalance and
\* availableBalance
SameJudgement(v, w) ==
  /\ v.isValid = w.isValid
  /\ \A f \in {"adjustedAmount", "requiredBalance", "availableBalance"} :
       /\ HasField(v, f) <=> HasField(w, f)
       /\ HasField(v, f) => v[f] = w[f]

\* C19: for each supported pair the human form and the exchange-native form
\* give the same (base, quote) asset codes (also after the conversion of
\* placeValidatedOrder), the same minimum order size, and the same isValid,
\* adjustedAmount, requiredBalance and availableBalance for the same side,
\* amount, balances and prices.
C19_FormsNormalizeAlike ==
  vState = "judged" =>
    \A b \in SupportedBases :
      vTrade.pair = HumanForm(b) =>
        /\ parsePair(NativeForm(b)) = parsePair(HumanForm(b))
        /\ parsePair(ValidationPair(NativeForm(b))) = parsePair(HumanForm(b))
        /\ getMinOrderSize(NativeForm(b)) = getMinOrderSize(HumanForm(b))
        /\ SameJudgement(vVerdict,
                         validateTrade(vBalances, vPrices,
                                       [vTrade EXCEPT !.pair = NativeForm(b)]))

\* C19 witness: the sell of Scenario B in the human form, adjusted to 0.019
C19_Witness ==
  /\ vState = "judged"
  /\ vTrade.pair = SlashUsd(BTC)
  /\ vTrade.side = "sell"
  /\ HasField(vVerdict, "adjustedAmount")
  /\ vVerdict.adjustedAmount = Amount(0, 19, 3)

\* A (base, quote) pair of asset codes of the supported set
IsAssetPair(bq) == Len(bq) = 2 /\ bq[1] \in SupportedAssets /\ bq[2] = ZUSD

\* A (base, quote) pair written in the human form BASE/QUOTE
HumanPair(bq) == bq[1] \o <<"/">> \o bq[2]

CaseVariants(pair) == {q \in VPairs : toUpperCase(q) = toUpperCase(pair)}

\* C21 as stated: the (base, quote) validateTrade resolves for a pair string
\* is the one it resolves for every letter-case variant of that string, in
\* the slash-delimited form and in the separator-less exchange form, and the
\* codes come out upper-cased.
C21_AliasingIgnoresCase ==
  vState = "judged" =>
    /\ \A q \in CaseVariants(vTrade.pair) : parsePair(q) = parsePair(vTrade.pair)
    /\ parsePair(vTrade.pair)[1] = toUpperCase(parsePair(vTrade.pair)[1])

\* The invocation of caller p has returned, and the gateway had answered its
\* 'placeOrder' request with a business error
RejectedByGateway(p) ==
  pc[p] = "done" /\ submitAnswer[p].kind = "error"

\* The kind the known phrases of section 7 give a gateway text
StatedKind(text) ==
  IF includes(text, "Insufficient funds") THEN "InsufficientFunds"
  ELSE IF includes(text, "Order minimum not met") THEN "BelowOrderMinimum"
  ELSE IF includes(text, "Invalid arguments") THEN "InvalidArguments"
  ELSE IF includes(text, "Unknown asset pair") THEN "UnknownPair"
  ELSE IF includes(text, "Invalid key") THEN "InvalidKey"
  ELSE IF includes(text, "Permission denied") THEN "PermissionDenied"
  ELSE "Unclassified"

\* C22 as stated: the error outcome of a submit the gateway rejected is
\* handled by the caller as the kind of the known phrase the gateway's text
\* contains, and as Unclassified when it contains none.
C22_ClassifiedByPhrase ==
  \A p \in Procs :
    RejectedByGateway(p) =>
      /\ HasField(outcome[p], "error")
      /\ ErrorKind(outcome[p].error[1]) = StatedKind(submitAnswer[p].error)

\* C23 as stated: the error outcome of a submit the gateway rejected carries
\* the gateway's text verbatim.
C23_RawMessageKept ==
  \A p \in Procs :
    RejectedByGateway(p) =>
      /\ HasField(outcome[p], "error")
      /\ outcome[p].error = <<submitAnswer[p].error>>

\* The invocation of caller p has returned, and the 'placeOrder' request it
\* sent failed in transport: the invocation failed, or the response held no
\* result field
TransportFailed(p) ==
  pc[p] = "done" /\ submitAnswer[p].kind \in {"invokeError", "noResult"}

\* What the caller of placeValidatedOrder can tell of a response: whether it
\* holds a result or an error, and for an error the branch of
\* executeValidatedTrade that handles it
Handling(response) ==
  IF HasField(response, "error")
  THEN <<"error", ErrorKind(response.error[1])>>
  ELSE <<"result">>

\* The responses placeValidatedOrder returns for the business errors of the
\* gateway, and for a proposal the validator rejects
RejectionResponses ==
  { [error |-> <<OrderErrorMessage(e)>>] : e \in OrderErrorTexts }
  \cup { [error |-> <<E_POSITIVE>>] }

\* C24 as stated: the outcome of a submit that failed in transport is one the
\* caller can tell from every outcome of a gateway rejection and of a local
\* validation rejection.
C24_TransportFailureDistinct ==
  \A p \in Procs :
    TransportFailed(p) =>
      \A r \in RejectionResponses : Handling(outcome[p]) # Handling(r)

\* C25 as stated: when placeValidatedOrder has returned, the order request of
\* the caller holds what it held when it was passed.
C25_ProposalNotMutated ==
  \A p \in Procs :
    (pc[p] = "done" /\ kind[p] = "order") => order[p] = requested[p]

\* C27 as stated: of the calls that overlap on one service, no two have a
\* 'getBalance' request in flight that they sent less than 30 000 ms apart,
\* unless an order was placed in between.
C27_OneRefreshForAll ==
  \A p, q \in Procs :
    (/\ p # q
     /\ pc[p] = "awaitBalance" /\ pc[q] = "awaitBalance"
     /\ ~overtaken[p] /\ ~overtaken[q]) =>
      ~(fetchNow[p] - fetchNow[q] < 30000 /\ fetchNow[q] - fetchNow[p] < 30000)

\* C30 as stated: while the cache holds balances that were requested before
\* the last 'placeOrder' result arrived, the timestamp of the cache does not
\* make them fresh: a getAccountBalance call is not served from the cache.
C30_InvalidationNotUndone ==
  orderSince => ~BalanceCacheHit(now, lastBalanceUpdate, cachedBalances)

\* The steps of a placeValidatedOrder invocation: from one position to the
\* next of fetching prices and balances, Validating (with Adjusting and
\* Revalidating), Submitting, and the terminal outcome
PhaseOrder ==
  { <<"idle", "awaitFeed">>, <<"idle", "pricesReady">>, <<"awaitFeed", "pricesReady">>,
    <<"pricesReady", "awaitBalance">>, <<"pricesReady", "validate">>,
    <<"awaitBalance", "validate">>, <<"awaitBalance", "done">>,
    <<"validate", "awaitSubmit">>, <<"validate", "done">>,
    <<"awaitSubmit", "done">>, <<"done", "idle">> }

\* An invocation moves along PhaseOrder; a request goes to the gateway only
\* in the step that validates, after one validation or, when the first
\* verdict was invalid with an adjustment, after a second one
C28_Phases ==
  \A p \in Procs :
    kind'[p] = "order" =>
      /\ pc'[p] # pc[p] => <<pc[p], pc'[p]>> \in PhaseOrder
      /\ Len(sent'[p]) > Len(sent[p]) =>
           /\ pc[p] = "validate" /\ pc'[p] = "awaitSubmit"
           /\ Len(sent'[p]) = 1
           /\ Len(validations'[p]) \in {1, 2}
           /\ Len(validations'[p]) = 2 =>
                /\ ~validations'[p][1].verdict.isValid
                /\ HasField(validations'[p][1].verdict, "adjustedAmount")

\* The terminal outcome is one of submitted (a result) and rejected or failed
\* (an error), never both
C28_OneOutcome ==
  \A p \in Procs :
    (pc[p] = "done" /\ kind[p] = "order") =>
      /\ HasField(outcome[p], "result") # HasField(outcome[p], "error")
      /\ HasField(outcome[p], "result") =>
           (Len(sent[p]) = 1 /\ submitAnswer[p].kind = "result")

\* After the terminal outcome the invocation validates nothing and sends
\* nothing
C28_Quiet ==
  \A p \in Procs :
    pc[p] = "done" =>
      /\ pc'[p] \in {"done", "idle"}
      /\ Len(validations'[p]) <= Len(validations[p])
      /\ Len(sent'[p]) <= Len(sent[p])

C26_JudgesItsSnapshot ==
  vMade # NoValidator =>
    /\ vBalances = vMade.balances
    /\ vPrices = vMade.cryptoPrices
    /\ vState = "judged" =>
         vVerdict = validateTrade(vMade.balances, vMade.cryptoPrices, vTrade)

\* C26 witness: the service has since refreshed both the balances and the
\* prices and has had an order succeed, and the verdict of the kept validator
\* is not the one a validator made now would give
C26_Witness ==
  /\ vState = "judged"
  /\ vMade # NoValidator
  /\ ~vAlias.balances /\ ~vAlias.prices
  /\ orderSince
  /\ cachedBalances # vMade.balances
  /\ cryptoPrices # vMade.cryptoPrices
  /\ vVerdict.isValid # validateTrade(cachedBalances, cryptoPrices, vTrade).isValid

\* C29 as stated: executions through executeValidatedTrade with the same
\* credentials share one balance cache: no execution has a 'getBalance'
\* request in flight that it sent less than 30 000 ms after the start of an
\* earlier request that brought balances, unless an order has succeeded
\* since.
C29_OneCachePerCredential ==
  \A p \in Procs :
    (pc[p] = "awaitBalance" /\ fetchedAt # 0 /\ ~orderSince) =>
      fetchNow[p] - fetchedAt >= 30000

\* A response that holds a non-empty error array
HasError(response) ==
  HasField(response, "error") /\ Len(response.error) > 0

\* In this step the price feed fails the request of caller p's
\* updateCryptoPricesIfNeeded
FeedFailureStep(p) ==
  pc[p] = "awaitFeed" /\ pc'[p] # "awaitFeed" /\ feedFailAt' # 0

\* The placeValidatedOrder of caller p has met a failure after its price
\* refresh: of the balance fetch, of the validation, or of the submit
\* (business error, transport error, missing result)
MetFailure(p) ==
  \/ balanceAnswer[p] = "failure"
  \/ validations[p] # <<>> /\ sent[p] = <<>>
  \/ submitAnswer[p].kind \in {"error", "invokeError", "noResult"}

\* C31 as stated: a price refresh that fails is returned as an error outcome
\* of the placeValidatedOrder that asked for it.
C31_RefreshFailureReturned ==
  [][\A p \in Procs :
       FeedFailureStep(p) => (pc'[p] = "done" /\ HasError(outcome'[p]))]_vars

\* What placeValidatedOrder has returned is a response and nothing thrown,
\* with exactly one of a non-empty error array and a result, and the error
\* array whenever the call met a failure
C31_Returned ==
  \A p \in Procs :
    (pc[p] = "done" /\ kind[p] = "order") =>
      /\ DOMAIN outcome[p] \subseteq {"error", "result"}
      /\ HasError(outcome[p]) # HasField(outcome[p], "result")
      /\ MetFailure(p) => HasError(outcome[p])
      /\ HasError(outcome[p]) => MetFailure(p)

\* A price refresh that fails ends nothing: the call goes on to the balances
C31_RefreshFailureAbsorbed ==
  \A p \in Procs :
    FeedFailureStep(p) => (pc'[p] = "pricesReady" /\ outcome'[p] = NoOutcome)

\* C31: placeValidatedOrder never throws or rejects: every failure of the
\* balance fetch, the validation and the submit (gateway business error,
\* transport error, missing result) is returned as an outcome whose error
\* array is non-empty, every returned outcome has exactly one of a non-empty
\* error array and a result, and a failed price refresh is no failure of the
\* call, which goes on with the fallback prices.
C31_NeverThrows ==
  []C31_Returned /\ [][C31_RefreshFailureAbsorbed]_vars

\* C31 witness: a call whose price refresh failed has sent its order and got
\* a transport error back as an error outcome
C31_Witness ==
  \E p \in Procs :
    /\ pc[p] = "done"
    /\ feedAsked[p]
    /\ feedFailAt # 0
    /\ cryptoPrices = FallbackPrices
    /\ submitAnswer[p].kind = "invokeError"
    /\ outcome[p] = [error |-> <<E_INVOKE>>]

\* In this step the order attempt of caller p ends without success: the
\* validator rejects it, or the gateway answers the submit with a business
\* error or the transport fails
FailedAttemptStep(p) ==
  /\ pc[p] \in {"validate", "awaitSubmit"}
  /\ pc'[p] = "done"
  /\ HasError(outcome'[p])

\* The step of the validation and of the submit, and the step in which the
\* attempt fails, leave the balance cache as it was
C32_CacheKept ==
  \A p \in Procs :
    (pc[p] \in {"validate", "awaitSubmit"} /\ (pc'[p] = "awaitSubmit" \/ FailedAttemptStep(p)))
      => /\ cachedBalances' = cachedBalances
         /\ lastBalanceUpdate' = lastBalanceUpdate

\* After an attempt that failed, a getAccountBalance within the interval of
\* the refresh that brought the cached map is served from the cache
C32_StillServed ==
  \A p \in Procs :
    (EndedInError(p) /\ validations[p] # <<>> /\ cachedBalances # {}
       /\ now - fetchedAt < balanceUpdateInterval)
      => /\ BalanceCacheHit(now, lastBalanceUpdate, cachedBalances)
         /\ cachedBalances = balances[p]

\* C32: an order attempt that does not succeed leaves the balance cache
\* untouched: when placeValidatedOrder ends with an error outcome because of
\* a validation rejection, a gateway business error or a transport failure on
\* submit, cachedBalances and lastBalanceUpdate are what they were just before
\* the submit step, so a following getAccountBalance within the interval is
\* still served from the cache.
C32_FailedAttemptKeepsCache ==
  [][C32_CacheKept]_vars /\ []C32_StillServed

\* C32 witness: the gateway has rejected a submit, and the balance map cached
\* before it is still within its interval
C32_Witness ==
  \E p \in Procs :
    /\ EndedInError(p)
    /\ submitAnswer[p].kind = "error"
    /\ cachedBalances # {}
    /\ now - fetchedAt < balanceUpdateInterval
    /\ BalanceCacheHit(now, lastBalanceUpdate, cachedBalances)

\* The optional fields a verdict carries besides the error message
CarriesNumbers(v) ==
  HasField(v, "adjustedAmount") \/ HasField(v, "requiredBalance")
    \/ HasField(v, "availableBalance")

\* C33: a validateTrade verdict is well-formed in every case: a valid verdict
\* never carries adjustedAmount, requiredBalance or availableBalance; an
\* invalid verdict always carries an error message; and requiredBalance and
\* availableBalance are either both present or both absent.
C33_VerdictWellFormed ==
  vState = "judged" =>
    /\ DOMAIN vVerdict \subseteq {"isValid", "error", "adjustedAmount",
                                  "requiredBalance", "availableBalance"}
    /\ vVerdict.isValid => ~CarriesNumbers(vVerdict)
    /\ ~vVerdict.isValid => (HasField(vVerdict, "error") /\ vVerdict.error # "")
    /\ HasField(vVerdict, "requiredBalance") <=> HasField(vVerdict, "availableBalance")

\* C33 witness: a buy the portfolio cannot pay for has been rejected with an
\* error message, the cost and the value available, and no adjusted amount
C33_Witness ==
  /\ vState = "judged"
  /\ vTrade.side = "buy"
  /\ ~vVerdict.isValid
  /\ vVerdict.error = E_PORTFOLIO
  /\ HasField(vVerdict, "requiredBalance")
  /\ HasField(vVerdict, "availableBalance")
  /\ ~HasField(vVerdict, "adjustedAmount")

\* A step that turns live mode on
LiveTurnedOn == ~isLiveMode /\ isLiveMode'

\* The step is the confirmation of the warning dialog
ByConfirmation == showLiveWarning /\ ~showLiveWarning' /\ tradingMode' = "live"

\* The step is the start-up with a stored mode of 'live'
ByRestore == ~mounted /\ mounted' /\ tradingMode = "live" /\ UNCHANGED tradingMode

C36_OnlyThroughDialog ==
  /\ LiveTurnedOn => ByConfirmation \/ ByRestore
  /\ (~showLiveWarning /\ showLiveWarning') => (~isLiveMode /\ ~isLiveMode')
  /\ (showLiveWarning /\ ~showLiveWarning' /\ ~ByConfirmation) => UNCHANGED isLiveMode
  /\ (isLiveMode /\ ~isLiveMode') => tradingMode' = "paper"

C36_StoredWhileLive == isLiveMode => tradingMode = "live"

\* C36: live mode is switched on only through the warning dialog.  Toggling
\* the switch on opens the warning and leaves isLiveMode false; isLiveMode
\* becomes true only when the dialog is confirmed or when a stored 'live' is
\* restored at start-up; closing the dialog otherwise leaves isLiveMode as it
\* was; the stored mode is 'live' whenever isLiveMode is true and 'paper'
\* after every switch-off
C36_LiveOnlyThroughWarning == []C36_StoredWhileLive /\ [][C36_OnlyThroughDialog]_vars

\* After a switch-off the switch has been toggled on again: the warning is
\* open, live mode is still off and the stored mode is still 'paper'
C36_Witness ==
  /\ mounted
  /\ showLiveWarning
  /\ ~isLiveMode
  /\ tradingMode = "paper"

\* A step in which the timer of the engine calls executeKrakenTrade
EngineIssues == exec = NoExec /\ exec' # NoExec /\ exec'.inv.by = "engine"

\* A step that starts the engine, and one that switches a strategy
EngineStarted == ~isEngineRunning /\ isEngineRunning'
StrategySwitched ==
  /\ activeStrategies' # activeStrategies
  /\ activeStrategies' # {}

C37_Gated ==
  /\ EngineIssues => isEngineRunning /\ isLiveMode /\ activeStrategies # {}
  /\ EngineStarted => isLiveMode /\ apiKeys.status = "saved"
  /\ StrategySwitched => isLiveMode /\ apiKeys.status = "saved"
  /\ (isEngineRunning /\ ~isEngineRunning') => activeStrategies' = {}

C37_TimerOnlyWhileOn ==
  interval # NoInterval => isEngineRunning /\ isLiveMode

\* C37: the timer of the live trading engine issues a trade only while the
\* engine is running, live mode is on and a strategy is active; the engine
\* starts and a strategy is switched only in live mode with Kraken keys of
\* status 'saved'; a step that stops the engine leaves no strategy active
C37_EngineGated == []C37_TimerOnlyWhileOn /\ [][C37_Gated]_vars

\* The timer of the running engine has issued a trade that is being placed
C37_Witness ==
  /\ exec.state = "placing"
  /\ exec.inv.by = "engine"
  /\ isEngineRunning
  /\ isLiveMode
  /\ activeStrategies # {}

\* An executeValidatedTrade invocation has returned and the response of its
\* service is still at hand
ExecReturned == exec.state = "returned"
GatewayAccepted == submitAnswer[SeqCaller].kind = "result"

ExecPlaces == exec = NoExec /\ exec' # NoExec /\ exec'.state = "placing"
DebugPlacesOrder == debug.state = "balance" /\ debug'.state = "order"
ExecInvoked == exec = NoExec /\ exec' # NoExec
DebugInvoked == debug = NoDebug /\ debug' # NoDebug
\* A request to the gateway is built for the caller in the step
RequestBuilt ==
  \E p \in Procs : pc[p] # pc'[p] /\ pc'[p] \in {"awaitBalance", "awaitSubmit"}

\* What executeValidatedTrade and the debugger do with the values of the
\* render they belong to
C34_AsTheFunctionSees ==
  /\ ExecPlaces => exec'.inv.isLiveMode /\ KeysUsable(exec'.inv.apiKeys)
  /\ DebugPlacesOrder => debug.isLiveMode
  /\ (ExecInvoked /\ ~ExecPlaces) => ~RequestBuilt

\* The keys of the provider when executeValidatedTrade places an order
C34_KeysSavedWhenPlaced == ExecPlaces => isLiveMode /\ KeysUsable(apiKeys)

\* The debugger outside live mode
C34_DebugAsksNothing == (DebugInvoked /\ ~isLiveMode) => ~RequestBuilt

\* C34: no order reaches the exchange outside live mode or without saved
\* Kraken keys: placeValidatedOrder is called by executeValidatedTrade and by
\* the debugger only when isLiveMode was true at the invocation, by
\* executeValidatedTrade only with a non-empty Kraken key and secret of status
\* 'saved', and an invocation that does not place builds no request to the
\* gateway
C34_OnlyLiveWithSavedKeys ==
  [][C34_AsTheFunctionSees /\ C34_KeysSavedWhenPlaced /\ C34_DebugAsksNothing]_vars

\* The engine's timer places an order with keys the provider no longer has
C34_StaleKeysPlaced ==
  /\ exec.state = "placing"
  /\ exec.inv.by = "engine"
  /\ exec.inv.keysThen = NoKeys

\* A step that adds an entry to the log, and one that is a plain logError call
EntryAdded == logCalls' = logCalls + 1
PlainLogError == EntryAdded /\ Len(logs') >= 2

C38_AtMostLimit == Len(logs) <= LogLimit

C38_NewestFirstNow ==
  \A i \in 1..Len(logs) : \A j \in 1..Len(logs) : i < j => logs[i] > logs[j]

C38_HeadAndOldest ==
  /\ EntryAdded => Len(logs') >= 1 /\ logs'[1] = logCalls'
  /\ PlainLogError =>
       /\ \A i \in 2..Len(logs') : logs'[i] = logs[i - 1]
       /\ \A i \in 1..Len(logs) :
            (\A j \in 1..Len(logs') : logs'[j] # logs[i])
              => \A j \in 1..Len(logs') : logs[i] < logs'[j]

\* C38: the error log never holds more than 100 entries and is ordered newest
\* first; each new entry is placed at the head with the earlier ones behind
\* it in their order, and an entry that is dropped is older than every entry
\* that is kept
C38_LogBounded ==
  /\ []C38_AtMostLimit
  /\ []C38_NewestFirstNow
  /\ [][C38_HeadAndOldest]_vars

\* The log is full and its oldest entries have been dropped
C38_Witness ==
  /\ Len(logs) = LogLimit
  /\ logs[1] = logCalls
  /\ logs[LogLimit] > 1

====
